---- MODULE Spec2Model ----
(***************************************************************************)
(* A model of mathforge: the mathematical core (services/mathService:      *)
(* primeFactorize, matrixInverse / matrixMultiply, safeEvaluate,           *)
(* evaluateScientific, parseFunction, the matrix library, solveQuadratic   *)
(* and factorial) and the components MatrixCalculator, BasicCalculator and *)
(* CurrencyConverter.  Each routine is a small state machine whose steps   *)
(* follow the statements of the source, and each event of a component is   *)
(* one step.  The routines and components have specifications of their own *)
(* (SpecPrime, SpecInverse, SpecEvaluate, SpecParse, SpecAlgebra,          *)
(* SpecQuadratic, SpecFactorial, SpecDims, SpecCalculators, SpecCurrency), *)
(* in which the variables of the others stay idle.                         *)
(***************************************************************************)
EXTENDS Integers, Sequences, FiniteSets, TLC

VARIABLES
    pc,         \* position of the routine under execution
    n,          \* primeFactorize: the argument
    num,        \* primeFactorize: the value still to factor
    i,          \* primeFactorize: the odd trial divisor
    factors,    \* primeFactorize: the list returned
    m,          \* matrixInverse: the argument (rows of rationals)
    augmented,  \* matrixInverse: the augmented matrix [M | I]
    col,        \* matrixInverse: the outer loop index i (1-based here)
    inverse,    \* matrixInverse: the matrix returned
    expression, \* safeEvaluate, evaluateScientific: the argument
    isDeg,      \* evaluateScientific: the angle mode
    sanitized,  \* safeEvaluate, evaluateScientific: the text after replacement
    evaluated,  \* safeEvaluate, evaluateScientific: `new Function` was reached
    result,     \* safeEvaluate, evaluateScientific: the value returned
    funcStr,    \* parseFunction: the argument
    processedStr, \* parseFunction: the text under rewriting
    boundFunc,  \* parseFunction: the compiled body of the function returned
    thrown,     \* parseFunction: the message of the Error thrown
    xArg,       \* boundFunc: the argument x of the last call
    y,          \* boundFunc: the value the last call returned
    operation,  \* matrix library: the name of the function called
    argA,       \* matrix library: the first argument
    argB,       \* matrix library: the second argument (a matrix or a vector)
    inverted,   \* matrix library: the call reached matrixInverse
    answer,     \* matrix library: the value returned or the error thrown
    coeffs,     \* solveQuadratic: the arguments <<a, b, c>>
    quadratic,  \* solveQuadratic: the object returned or the error thrown
    factArg,    \* factorial: the argument n
    factI,      \* factorial: the loop variable i
    product,    \* factorial: the variable result of the loop
    factorialOf, \* factorial: the value returned
    rowsAStr,   \* MatrixCalculator: the text of the Rows field of matrix A
    colsAStr,   \* MatrixCalculator: the text of the Cols field of matrix A
    rowsBStr,   \* MatrixCalculator: the text of the Rows field of matrix B
    colsBStr,   \* MatrixCalculator: the text of the Cols field of matrix B
    matrixA,    \* MatrixCalculator: the grid of matrix A (rows of cell texts)
    matrixB,    \* MatrixCalculator: the grid of matrix B
    vectorB,    \* MatrixCalculator: the cells of vector B
    results,    \* MatrixCalculator: the result panel of each section
    error,      \* MatrixCalculator: the error displayed, or null
    history,    \* MatrixCalculator: the history, the newest entry first
    cellEdits,  \* MatrixCalculator: the number of cell edits so far
    opsDone,    \* MatrixCalculator: the number of operations and clearings so far
    display,    \* BasicCalculator: the text of the display
    calcHistory, \* BasicCalculator: the history, the newest entry first
    isScientific, \* BasicCalculator: the scientific mode is on
    angleDeg,   \* BasicCalculator: the state isDeg, the angle mode
    presses,    \* BasicCalculator: the number of key and button events so far
    amount,     \* CurrencyConverter: the text of the Amount field
    fromCurrency, \* CurrencyConverter: the currency selected in From
    toCurrency, \* CurrencyConverter: the currency selected in To
    converted,  \* CurrencyConverter: the state result, the converted amount
    rates,      \* CurrencyConverter: the stored rates, or null
    loading,    \* CurrencyConverter: the state loading
    fetchError, \* CurrencyConverter: the state error, a message or null
    lastUpdated, \* CurrencyConverter: the time of the stored rates, or null
    requests,   \* CurrencyConverter: the base of each call of fetchRates, in the order of the calls
    pending     \* CurrencyConverter: the calls of fetchRates that await their response

primeVars == <<n, num, i, factors>>
inverseVars == <<m, augmented, col, inverse>>
evaluateVars == <<expression, isDeg, sanitized, evaluated, result>>
parseVars == <<funcStr, processedStr, boundFunc, thrown, xArg, y>>
algebraVars == <<operation, argA, argB, inverted, answer>>
quadraticVars == <<coeffs, quadratic>>
factVars == <<factArg, factI, product, factorialOf>>
gridVars == <<rowsAStr, colsAStr, rowsBStr, colsBStr, matrixA, matrixB, vectorB,
              results, error, history, cellEdits, opsDone>>
basicVars == <<display, calcHistory, isScientific, angleDeg, presses>>
currencyVars == <<amount, fromCurrency, toCurrency, converted, rates, loading, fetchError, lastUpdated, requests, pending>>
vars == <<pc, n, num, i, factors, m, augmented, col, inverse,
          expression, isDeg, sanitized, evaluated, result,
          funcStr, processedStr, boundFunc, thrown, xArg, y,
          operation, argA, argB, inverted, answer, coeffs, quadratic,
          factArg, factI, product, factorialOf,
          rowsAStr, colsAStr, rowsBStr, colsBStr, matrixA, matrixB, vectorB,
          results, error, history, cellEdits, opsDone,
          display, calcHistory, isScientific, angleDeg, presses,
          amount, fromCurrency, toCurrency, converted, rates, loading, fetchError, lastUpdated, requests, pending>>

\* ------------------------------------------------------------------------
\* Bounds of the model
\* ------------------------------------------------------------------------
MaxN == 400
\* entries of the matrices handed to matrixInverse: -(MaxEntry+1)..(MaxEntry+1)
\* up to order 2, 0..MaxEntry at order 3
MaxEntry == 1

\* ------------------------------------------------------------------------
\* Generic helpers
\* ------------------------------------------------------------------------
RECURSIVE Product(_)
Product(s) == IF s = <<>> THEN 1 ELSE Head(s) * Product(Tail(s))

IsPrime(p) == p >= 2 /\ \A d \in 2..(p - 1) : p % d # 0

\* ------------------------------------------------------------------------
\* Idle values of each routine's variables
\* ------------------------------------------------------------------------
\* a variable that holds no value of the program yet
NoValue == [k |-> "none", v |-> <<>>]

InverseIdle == m = <<>> /\ augmented = <<>> /\ col = 0 /\ inverse = <<>>
PrimeIdle == n = 0 /\ num = 0 /\ i = 0 /\ factors = <<>>
EvaluateIdle ==
    /\ expression = <<>> /\ isDeg = TRUE /\ sanitized = <<>>
    /\ evaluated = FALSE /\ result = NoValue
ParseIdle ==
    /\ funcStr = <<>> /\ processedStr = <<>> /\ boundFunc = <<>>
    /\ thrown = "" /\ xArg = NoValue /\ y = NoValue

AlgebraIdle ==
    /\ operation = "" /\ argA = <<>> /\ argB = <<>>
    /\ inverted = FALSE /\ answer = NoValue
QuadraticIdle == coeffs = <<>> /\ quadratic = NoValue
FactIdle == factArg = NoValue /\ factI = 0 /\ product = NoValue /\ factorialOf = NoValue
GridIdle ==
    /\ rowsAStr = NoValue /\ colsAStr = NoValue /\ rowsBStr = NoValue /\ colsBStr = NoValue
    /\ matrixA = <<>> /\ matrixB = <<>> /\ vectorB = <<>>
    /\ results = <<>> /\ error = NoValue /\ history = NoValue
    /\ cellEdits = 0 /\ opsDone = 0
BasicIdle == display = NoValue /\ calcHistory = NoValue /\ isScientific = FALSE /\ angleDeg = TRUE /\ presses = 0
CurrencyIdle == amount = NoValue /\ fromCurrency = NoValue /\ toCurrency = NoValue /\ converted = NoValue /\ rates = NoValue /\ loading = FALSE /\ fetchError = NoValue /\ lastUpdated = NoValue /\ requests = <<>> /\ pending = {}

PrimeFrame == UNCHANGED <<inverseVars, evaluateVars, parseVars, algebraVars, quadraticVars, factVars, gridVars, basicVars, currencyVars>>
InverseFrame == UNCHANGED <<primeVars, evaluateVars, parseVars, algebraVars, quadraticVars, factVars, gridVars, basicVars, currencyVars>>
EvaluateFrame == UNCHANGED <<primeVars, inverseVars, parseVars, algebraVars, quadraticVars, factVars, gridVars, basicVars, currencyVars>>
ParseFrame == UNCHANGED <<primeVars, inverseVars, evaluateVars, algebraVars, quadraticVars, factVars, gridVars, basicVars, currencyVars>>
AlgebraFrame == UNCHANGED <<primeVars, inverseVars, evaluateVars, parseVars, quadraticVars, factVars, gridVars, basicVars, currencyVars>>
QuadraticFrame == UNCHANGED <<primeVars, inverseVars, evaluateVars, parseVars, algebraVars, factVars, gridVars, basicVars, currencyVars>>
FactFrame == UNCHANGED <<primeVars, inverseVars, evaluateVars, parseVars, algebraVars, quadraticVars, gridVars, basicVars, currencyVars>>
GridFrame == UNCHANGED <<primeVars, inverseVars, evaluateVars, parseVars, algebraVars, quadraticVars, factVars, basicVars, currencyVars>>
BasicFrame == UNCHANGED <<primeVars, inverseVars, evaluateVars, parseVars, algebraVars, quadraticVars, factVars, gridVars, currencyVars>>
CurrencyFrame == UNCHANGED <<primeVars, inverseVars, evaluateVars, parseVars, algebraVars, quadraticVars, factVars, gridVars, basicVars>>

\* ------------------------------------------------------------------------
\* primeFactorize (src/constants.tsx 880-908)
\* ------------------------------------------------------------------------
\* if (!Number.isInteger(n) || n < 2) throw ...
PFInvalid(k) == k < 2

\* for (let i = 3; i <= Math.sqrt(num); ...)
PFLoopGuard(j, v) == j * j <= v

\* if (num > 2) factors.push(num)
PFRemainder_Three(v) == v > 3
PFRemainder(v) == v > 2

PFInit ==
    /\ pc = "pf_start"
    /\ n \in 0..MaxN
    /\ num = 0 /\ i = 0 /\ factors = <<>>
    /\ InverseIdle /\ EvaluateIdle /\ ParseIdle /\ AlgebraIdle /\ QuadraticIdle /\ FactIdle /\ GridIdle /\ BasicIdle /\ CurrencyIdle

\* the two validity checks and the initialisation of factors and num
PFEnter ==
    /\ pc = "pf_start"
    /\ IF PFInvalid(n)
          THEN pc' = "pf_throw" /\ UNCHANGED primeVars
          ELSE /\ pc' = "pf_twos"
               /\ num' = n
               /\ factors' = <<>>
               /\ UNCHANGED <<n, i>>
    /\ PrimeFrame

\* while (num % 2 === 0) { factors.push(2); num /= 2; }
PFStripTwo ==
    /\ pc = "pf_twos"
    /\ IF num % 2 = 0
          THEN /\ factors' = Append(factors, 2)
               /\ num' = num \div 2
               /\ UNCHANGED <<pc, n, i>>
          ELSE /\ pc' = "pf_odd"
               /\ i' = 3
               /\ UNCHANGED <<n, num, factors>>
    /\ PrimeFrame

\* one evaluation of the for loop's test, with the inner while run to its end
RECURSIVE PFDivideOut(_, _, _)
PFDivideOut(v, j, fs) ==
    IF v % j = 0 THEN PFDivideOut(v \div j, j, Append(fs, j))
                 ELSE <<v, fs>>

PFOddStep ==
    /\ pc = "pf_odd"
    /\ IF PFLoopGuard(i, num)
          THEN LET r == PFDivideOut(num, i, factors) IN
               /\ num' = r[1]
               /\ factors' = r[2]
               /\ i' = i + 2
               /\ UNCHANGED <<pc, n>>
          ELSE /\ pc' = "pf_rest"
               /\ UNCHANGED primeVars
    /\ PrimeFrame

PFFinish ==
    /\ pc = "pf_rest"
    /\ factors' = IF PFRemainder(num) THEN Append(factors, num) ELSE factors
    /\ pc' = "pf_done"
    /\ UNCHANGED <<n, num, i>>
    /\ PrimeFrame

PrimeNext == PFEnter \/ PFStripTwo \/ PFOddStep \/ PFFinish

SpecPrime == PFInit /\ [][PrimeNext]_vars

\* C1: for every integer n with 2 <= n <= MaxN, primeFactorize returns a
\* non-empty list whose elements are all prime, in non-decreasing order, and
\* whose product is n exactly.
C1_PrimeFactorizeCorrect ==
    (pc = "pf_done") =>
        /\ n >= 2
        /\ Len(factors) >= 1
        /\ \A k \in 1..Len(factors) : IsPrime(factors[k])
        /\ \A k \in 1..(Len(factors) - 1) : factors[k] <= factors[k + 1]
        /\ Product(factors) = n

C1_Witness ==
    /\ pc = "pf_done"
    /\ n = 360
    /\ factors = <<2, 2, 2, 3, 3, 5>>

\* ------------------------------------------------------------------------
\* Numbers of the matrix routines: exact rationals <<p, q>> with q > 0 in
\* lowest terms.  A division by zero gives NonFinite (JavaScript's Infinity
\* or NaN, folded into one value), which every later operation keeps.
\* ------------------------------------------------------------------------
Abs(a) == IF a < 0 THEN -a ELSE a

RECURSIVE Gcd(_, _)
Gcd(a, b) == IF b = 0 THEN a ELSE Gcd(b, a % b)

NonFinite == <<0, 0>>
IsFinite(r) == r[2] # 0

Rat(p, q) ==
    IF q = 0 THEN NonFinite
    ELSE LET g == Gcd(Abs(p), Abs(q))
             sg == IF q < 0 THEN -1 ELSE 1
         IN <<sg * (p \div g), sg * (q \div g)>>

RInt(k) == <<k, 1>>
RZero == RInt(0)
ROne == RInt(1)

RAdd(a, b) == IF IsFinite(a) /\ IsFinite(b)
                 THEN Rat(a[1] * b[2] + b[1] * a[2], a[2] * b[2]) ELSE NonFinite
RSub(a, b) == IF IsFinite(a) /\ IsFinite(b)
                 THEN Rat(a[1] * b[2] - b[1] * a[2], a[2] * b[2]) ELSE NonFinite
RMul(a, b) == IF IsFinite(a) /\ IsFinite(b)
                 THEN Rat(a[1] * b[1], a[2] * b[2]) ELSE NonFinite
RDiv(a, b) == IF IsFinite(a) /\ IsFinite(b)
                 THEN Rat(a[1] * b[2], a[2] * b[1]) ELSE NonFinite
RAbs(a) == <<Abs(a[1]), a[2]>>
\* a > b on finite rationals; a comparison with NaN is false in JavaScript
RGreater(a, b) == IsFinite(a) /\ IsFinite(b) /\ a[1] * b[2] > b[1] * a[2]

\* ------------------------------------------------------------------------
\* Matrices: sequences of rows, rows are sequences of rationals.  The
\* source's indices are 0-based; the model's are 1-based.
\* ------------------------------------------------------------------------
Rows(a) == Len(a)
Cols(a) == IF Len(a) = 0 THEN 0 ELSE Len(a[1])

Identity(k) == [r \in 1..k |-> [c \in 1..k |-> IF r = c THEN ROne ELSE RZero]]

RECURSIVE RSum(_)
RSum(s) == IF s = <<>> THEN RZero ELSE RAdd(Head(s), RSum(Tail(s)))

\* matrixMultiply (src/constants.tsx 507-523); "throw" stands for the
\* Wrong Order error and "TypeError" for the one the read of a[0].length or
\* b[0].length raises when the array is empty
matrixMultiply(a, b) ==
    IF a = <<>> THEN "TypeError"
    ELSE IF Cols(a) # Rows(b) THEN "throw"
    ELSE IF b = <<>> THEN "TypeError"
    ELSE [r \in 1..Rows(a) |->
            [c \in 1..Cols(b) |->
                RSum([k \in 1..Rows(b) |-> RMul(a[r][k], b[k][c])])]]

\* drop element k of a sequence
Without(s, k) == [j \in 1..(Len(s) - 1) |-> IF j < k THEN s[j] ELSE s[j + 1]]

\* getMinor (src/constants.tsx 526-527)
getMinor(a, r, c) == [j \in 1..(Len(a) - 1) |-> Without(Without(a, r)[j], c)]

\* (-1) ** c for the 0-based column c
SignOf_Plus(c) == ROne
SignOf(c) == IF c % 2 = 0 THEN ROne ELSE RInt(-1)

\* determinant (src/constants.tsx 530-542), for a square matrix of order >= 1
RECURSIVE determinant(_)
determinant(a) ==
    IF Len(a) = 1 THEN a[1][1]
    ELSE IF Len(a) = 2
        THEN RSub(RMul(a[1][1], a[2][2]), RMul(a[1][2], a[2][1]))
    ELSE RSum([c \in 1..Len(a) |->
                 RMul(RMul(SignOf(c - 1), a[1][c]), determinant(getMinor(a, 1, c)))])

\* m.length === 0 || m.length !== m[0].length
NotSquare(a) == Rows(a) = 0 \/ Rows(a) # Cols(a)

\* Math.abs(det) < 1e-10: the arguments of the model have integer entries,
\* so their determinant is an integer and is below 1e-10 exactly when it is 0
IsSingular_Never(det) == FALSE
IsSingular(det) == RAbs(det) = RZero

\* ------------------------------------------------------------------------
\* matrixInverse (src/constants.tsx 577-617)
\* ------------------------------------------------------------------------
\* the augmented matrix [M | I]
Augment(a) ==
    LET k == Len(a) IN
    [r \in 1..k |-> a[r] \o [c \in 1..k |-> IF r = c THEN ROne ELSE RZero]]

\* the partial pivoting loop: the first row at or below c whose entry in
\* column c has the largest absolute value
RECURSIVE MaxRowFrom(_, _, _, _)
MaxRowFrom(aug, c, k, best) ==
    IF k > Len(aug) THEN best
    ELSE MaxRowFrom(aug, c, k + 1,
                    IF RGreater(RAbs(aug[k][c]), RAbs(aug[best][c])) THEN k ELSE best)

MaxRow_NoPivoting(aug, c) == c
MaxRow(aug, c) == MaxRowFrom(aug, c, c + 1, c)

\* [augmented[i], augmented[maxRow]] = [augmented[maxRow], augmented[i]]
SwapRows(aug, r1, r2) ==
    [r \in 1..Len(aug) |-> IF r = r1 THEN aug[r2] ELSE IF r = r2 THEN aug[r1] ELSE aug[r]]

\* for (j = i; j < 2n; j++) augmented[i][j] /= pivot
NormalizeRow(aug, c) ==
    LET pivot == aug[c][c] IN
    [aug EXCEPT ![c] = [j \in 1..Len(aug[c]) |->
                           IF j >= c THEN RDiv(aug[c][j], pivot) ELSE aug[c][j]]]

\* for every row k # i: augmented[k][j] -= factor * augmented[i][j], j >= i
EliminateColumn(aug, c) ==
    [k \in 1..Len(aug) |->
        IF k = c THEN aug[k]
        ELSE LET factor == aug[k][c] IN
             [j \in 1..Len(aug[k]) |->
                 IF j >= c THEN RSub(aug[k][j], RMul(factor, aug[c][j]))
                           ELSE aug[k][j]]]

\* augmented.map(row => row.slice(n))
RightHalf(aug) ==
    LET k == Len(aug) IN [r \in 1..k |-> [c \in 1..k |-> aug[r][k + c]]]

\* The rows of augmented are new arrays, [...row, ...] (587-590), and not the
\* rows of m: a write augmented[i][j] = ... leaves m as it is.  Were the rows
\* shared, the caller would see the left half of what is written.
RowsAreCopies_Shared == FALSE
RowsAreCopies == TRUE
LeftHalf(aug) == [r \in 1..Len(aug) |-> SubSeq(aug[r], 1, Len(aug))]
CallerMatrix(arg, aug) == IF RowsAreCopies THEN arg ELSE LeftHalf(aug)

IntMatrices(r, c, S) == [1..r -> [1..c -> {RInt(v) : v \in S}]]

InverseInputs ==
    {<<>>}
    \cup IntMatrices(1, 1, (-(MaxEntry + 1))..(MaxEntry + 1))
    \cup IntMatrices(2, 2, (-(MaxEntry + 1))..(MaxEntry + 1))
    \cup IntMatrices(3, 3, 0..MaxEntry)
    \cup IntMatrices(1, 2, 0..MaxEntry)
    \cup IntMatrices(2, 1, 0..MaxEntry)

MIInit ==
    /\ pc = "mi_start"
    /\ m \in InverseInputs
    /\ augmented = <<>> /\ col = 0 /\ inverse = <<>>
    /\ PrimeIdle /\ EvaluateIdle /\ ParseIdle /\ AlgebraIdle /\ QuadraticIdle /\ FactIdle /\ GridIdle /\ BasicIdle /\ CurrencyIdle

\* the order check, the determinant check and the construction of augmented
MIEnter ==
    /\ pc = "mi_start"
    /\ IF NotSquare(m)
          THEN pc' = "mi_throw_order" /\ UNCHANGED <<augmented, col>>
          ELSE IF IsSingular(determinant(m))
          THEN pc' = "mi_throw_singular" /\ UNCHANGED <<augmented, col>>
          ELSE /\ pc' = "mi_pivot"
               /\ augmented' = Augment(m)
               /\ col' = 1
    /\ UNCHANGED <<m, inverse>>
    /\ InverseFrame

\* the search for maxRow and the swap, for column col
MIPivot ==
    /\ pc = "mi_pivot"
    /\ augmented' = SwapRows(augmented, col, MaxRow(augmented, col))
    /\ pc' = "mi_norm"
    /\ UNCHANGED <<m, col, inverse>>
    /\ InverseFrame

\* the division of the pivot row by the pivot
MINormalize ==
    /\ pc = "mi_norm"
    /\ augmented' = NormalizeRow(augmented, col)
    /\ m' = CallerMatrix(m, augmented')
    /\ pc' = "mi_elim"
    /\ UNCHANGED <<col, inverse>>
    /\ InverseFrame

\* the elimination of column col from every other row, and i++
MIEliminate ==
    /\ pc = "mi_elim"
    /\ augmented' = EliminateColumn(augmented, col)
    /\ col' = col + 1
    /\ pc' = IF col + 1 > Len(m) THEN "mi_ret" ELSE "mi_pivot"
    /\ m' = CallerMatrix(m, augmented')
    /\ UNCHANGED inverse
    /\ InverseFrame

MIReturn ==
    /\ pc = "mi_ret"
    /\ inverse' = RightHalf(augmented)
    /\ pc' = "mi_done"
    /\ UNCHANGED <<m, augmented, col>>
    /\ InverseFrame

InverseNext == MIEnter \/ MIPivot \/ MINormalize \/ MIEliminate \/ MIReturn

SpecInverse == MIInit /\ [][InverseNext]_vars

\* C2: for every square matrix M with non-zero determinant,
\* matrixMultiply(M, matrixInverse(M)) is the identity matrix of the same
\* order (exactly, in rational arithmetic), and the Gauss-Jordan loop never
\* divides by a zero pivot.
C2_InverseRoundTrip ==
    /\ (pc = "mi_norm") => (augmented[col][col] # RZero /\ IsFinite(augmented[col][col]))
    /\ (pc = "mi_done") => matrixMultiply(m, inverse) = Identity(Len(m))

\* a 3x3 argument for which the pivot search had to swap rows has been inverted
C2_Witness ==
    /\ pc = "mi_done"
    /\ Len(m) = 3
    /\ m[1][1] = RZero
    /\ matrixMultiply(m, inverse) = Identity(3)

\* ------------------------------------------------------------------------
\* Text.  A string is a sequence of one-character strings.
\* ------------------------------------------------------------------------
Digits == {"0", "1", "2", "3", "4", "5", "6", "7", "8", "9"}
Lower == <<"a", "b", "c", "d", "e", "f", "g", "h", "i", "j", "k", "l", "m",
           "n", "o", "p", "q", "r", "s", "t", "u", "v", "w", "x", "y", "z">>
Upper == <<"A", "B", "C", "D", "E", "F", "G", "H", "I", "J", "K", "L", "M",
           "N", "O", "P", "Q", "R", "S", "T", "U", "V", "W", "X", "Y", "Z">>
LowerLetters == {Lower[k] : k \in 1..26}
UpperLetters == {Upper[k] : k \in 1..26}

IsDigit(c) == c \in Digits
IsLower(c) == c \in LowerLetters
\* \s of a regular expression, and the characters String.prototype.trim strips
IsSpace(c) == c \in {" ", "\t"}
\* \w of a regular expression
IsWordChar(c) == c \in LowerLetters \cup UpperLetters \cup Digits \cup {"_"}

\* String.prototype.toLowerCase
ToLowerChar(c) ==
    IF c \in UpperLetters THEN Lower[CHOOSE k \in 1..26 : Upper[k] = c] ELSE c
toLowerCase(s) == [k \in 1..Len(s) |-> ToLowerChar(s[k])]

RECURSIVE Join(_)
Join(s) == IF s = <<>> THEN "" ELSE Head(s) \o Join(Tail(s))

RECURSIVE TrimLeft(_)
TrimLeft(s) == IF s # <<>> /\ IsSpace(Head(s)) THEN TrimLeft(Tail(s)) ELSE s
RECURSIVE TrimRight(_)
TrimRight(s) ==
    IF s # <<>> /\ IsSpace(s[Len(s)]) THEN TrimRight(SubSeq(s, 1, Len(s) - 1)) ELSE s
\* String.prototype.trim
trim(s) == TrimRight(TrimLeft(s))

\* s.startsWith(w) at position p
StartsWithAt(s, p, w) ==
    /\ p + Len(w) - 1 <= Len(s)
    /\ \A k \in 1..Len(w) : s[p + k - 1] = w[k]

\* all strings over the alphabet A of length at most k
RECURSIVE StringsUpTo(_, _)
StringsUpTo(A, k) ==
    IF k = 0 THEN {<<>>}
    ELSE LET shorter == StringsUpTo(A, k - 1) IN
         shorter \cup {Append(t, c) : t \in {u \in shorter : Len(u) = k - 1}, c \in A}

\* ------------------------------------------------------------------------
\* JavaScript values.  A value is a record [k, v]: k is its kind and v its
\* payload.  Kinds: "num" (a finite number, v an exact rational), "real" (a
\* finite number that is no rational of the model, such as Math.sin(1); v is
\* the term that produced it), "nan", "inf", "ninf", "undefined", "null",
\* "function" (v names it), "object", "string", and "throw" (an exception on
\* its way up, v names its class).  Negative zero is not told from zero, and
\* a "real" is taken to be positive and inside the domain of the function it
\* is handed to.
\* ------------------------------------------------------------------------
JsVal(kind, payload) == [k |-> kind, v |-> payload]
JsNum(r) == JsVal("num", r)
JsInt(j) == JsNum(RInt(j))
JsReal(term) == JsVal("real", term)
JsNaN == JsVal("nan", <<>>)
JsInf == JsVal("inf", <<>>)
JsNegInf == JsVal("ninf", <<>>)
JsUndefined == JsVal("undefined", <<>>)
JsNull == JsVal("null", <<>>)
JsObject == JsVal("object", <<>>)
JsString == JsVal("string", <<>>)
JsFunction(name) == JsVal("function", <<name>>)
JsThrow(class) == JsVal("throw", <<class>>)

IsThrow(a) == a.k = "throw"
NumberKinds == {"num", "real", "nan", "inf", "ninf"}
\* typeof a === "number"
IsNumber(a) == a.k \in NumberKinds
\* Number.isFinite / the global isFinite on a number
JsIsFinite(a) == a.k \in {"num", "real"}

\* ToNumber: undefined, functions, objects (and the strings they print as)
\* give NaN, null gives 0
ToNumber(a) ==
    IF IsNumber(a) THEN a
    ELSE IF a.k = "null" THEN JsInt(0)
    ELSE JsNaN

\* ToBoolean: NaN, 0, undefined and null are false
ToBoolean(a) ==
    /\ a.k \notin {"nan", "undefined", "null"}
    /\ ~(a.k = "num" /\ a.v[1] = 0)

\* -1, 0 or 1 for a number that is not NaN
JsSign(a) ==
    IF a.k = "num" THEN (IF a.v[1] < 0 THEN -1 ELSE IF a.v[1] = 0 THEN 0 ELSE 1)
    ELSE IF a.k = "ninf" THEN -1
    ELSE 1

JsSignedInf(sg) == IF sg < 0 THEN JsNegInf ELSE JsInf

\* the operators below take operands that ToNumber has converted
NumNeg(a) ==
    IF a.k = "num" THEN JsNum(RSub(RZero, a.v))
    ELSE IF a.k = "inf" THEN JsNegInf
    ELSE IF a.k = "ninf" THEN JsInf
    ELSE IF a.k = "real" THEN JsReal(<<"neg", a>>)
    ELSE JsNaN

JsNeg(a0) == NumNeg(ToNumber(a0))

IsInfinite(a) == a.k \in {"inf", "ninf"}
EitherNaN(a, b) == a.k = "nan" \/ b.k = "nan"
BothRational(a, b) == a.k = "num" /\ b.k = "num"

NumAdd(a, b) ==
    IF EitherNaN(a, b) THEN JsNaN
    ELSE IF IsInfinite(a) THEN (IF IsInfinite(b) /\ b.k # a.k THEN JsNaN ELSE a)
    ELSE IF IsInfinite(b) THEN b
    ELSE IF BothRational(a, b) THEN JsNum(RAdd(a.v, b.v))
    ELSE JsReal(<<"+", a, b>>)

IsConcatenated(a) == a.k \in {"string", "object", "function"}

\* a + b: concatenation as soon as an operand is no primitive number
JsAdd(a0, b0) ==
    IF IsConcatenated(a0) \/ IsConcatenated(b0) THEN JsString
    ELSE NumAdd(ToNumber(a0), ToNumber(b0))

JsSub(a0, b0) == NumAdd(ToNumber(a0), NumNeg(ToNumber(b0)))

SignProduct(a, b) == JsSign(a) * JsSign(b)

NumMul(a, b) ==
    IF EitherNaN(a, b) THEN JsNaN
    ELSE IF IsInfinite(a) \/ IsInfinite(b)
        THEN (IF SignProduct(a, b) = 0 THEN JsNaN ELSE JsSignedInf(SignProduct(a, b)))
    ELSE IF BothRational(a, b) THEN JsNum(RMul(a.v, b.v))
    ELSE IF SignProduct(a, b) = 0 THEN JsInt(0)
    ELSE JsReal(<<"*", a, b>>)

JsMul(a0, b0) == NumMul(ToNumber(a0), ToNumber(b0))

NumDiv(a, b) ==
    IF EitherNaN(a, b) THEN JsNaN
    ELSE IF IsInfinite(a)
        THEN (IF IsInfinite(b) THEN JsNaN
              ELSE JsSignedInf(JsSign(a) * (IF JsSign(b) < 0 THEN -1 ELSE 1)))
    ELSE IF IsInfinite(b) THEN JsInt(0)
    ELSE IF JsSign(b) = 0
        THEN (IF JsSign(a) = 0 THEN JsNaN ELSE JsSignedInf(JsSign(a)))
    ELSE IF BothRational(a, b) THEN JsNum(RDiv(a.v, b.v))
    ELSE IF JsSign(a) = 0 THEN JsInt(0)
    ELSE JsReal(<<"/", a, b>>)

JsDiv(a0, b0) == NumDiv(ToNumber(a0), ToNumber(b0))

\* the integer part of a rational, towards zero and towards minus infinity
RTrunc(r) == IF r[1] >= 0 THEN r[1] \div r[2] ELSE -((-r[1]) \div r[2])
RFloor(r) == r[1] \div r[2]
RCeil(r) == -((-r[1]) \div r[2])
RIsInt(r) == r[2] = 1
RLess(a, b) == a[1] * b[2] < b[1] * a[2]

\* a % b: the sign of the result is the sign of the dividend
NumMod(a, b) ==
    IF EitherNaN(a, b) THEN JsNaN
    ELSE IF IsInfinite(a) THEN JsNaN
    ELSE IF IsInfinite(b) THEN a
    ELSE IF JsSign(b) = 0 THEN JsNaN
    ELSE IF BothRational(a, b)
        THEN JsNum(RSub(a.v, RMul(b.v, RInt(RTrunc(RDiv(a.v, b.v))))))
    ELSE JsReal(<<"%", a, b>>)

JsMod(a0, b0) == NumMod(ToNumber(a0), ToNumber(b0))

RECURSIVE RPow(_, _)
RPow(r, e) == IF e = 0 THEN ROne ELSE RMul(r, RPow(r, e - 1))

\* a ** b for an infinite b
PowToInfinity(a, b) ==
    IF IsInfinite(a) THEN (IF b.k = "inf" THEN JsInf ELSE JsInt(0))
    ELSE IF a.k = "real" THEN JsReal(<<"**", a, b>>)
    ELSE IF RAbs(a.v) = ROne THEN JsNaN
    ELSE IF RLess(ROne, RAbs(a.v)) = (b.k = "inf") THEN JsInf
    ELSE JsInt(0)

\* a ** b for an infinite a and a finite b that is not zero
PowOfInfinity(a, b) ==
    IF JsSign(b) < 0 THEN JsInt(0)
    ELSE IF a.k = "ninf" /\ b.k = "num" /\ RIsInt(b.v) /\ b.v[1] % 2 = 1 THEN JsNegInf
    ELSE JsInf

\* a ** b for a rational a that is not zero and an integer b that is not zero
PowByInteger(a, b) ==
    IF Abs(b.v[1]) <= 4 /\ Abs(a.v[1]) <= 100 /\ a.v[2] <= 100
        THEN (IF b.v[1] > 0 THEN JsNum(RPow(a.v, b.v[1]))
              ELSE JsNum(RDiv(ROne, RPow(a.v, -b.v[1]))))
    ELSE JsReal(<<"**", a, b>>)

NumPow(a, b) ==
    IF b.k = "num" /\ b.v = RZero THEN JsInt(1)
    ELSE IF EitherNaN(a, b) THEN JsNaN
    ELSE IF IsInfinite(b) THEN PowToInfinity(a, b)
    ELSE IF IsInfinite(a) THEN PowOfInfinity(a, b)
    ELSE IF a.k = "real" \/ b.k = "real" THEN JsReal(<<"**", a, b>>)
    ELSE IF a.v = RZero THEN (IF JsSign(b) < 0 THEN JsInf ELSE JsInt(0))
    ELSE IF ~RIsInt(b.v)
        THEN (IF JsSign(a) < 0 THEN JsNaN ELSE JsReal(<<"**", a, b>>))
    ELSE PowByInteger(a, b)

\* a ** b and Math.pow(a, b).  The power is computed exactly for an integer
\* exponent of magnitude at most 4 on a rational with numerator and
\* denominator of magnitude at most 100; any other finite power is a "real"
JsPow(a0, b0) == NumPow(ToNumber(a0), ToNumber(b0))

\* ------------------------------------------------------------------------
\* The Math functions the source binds.  A result that is a rational is
\* computed; any other finite result is the "real" <<name, argument>>.
\* ------------------------------------------------------------------------
Arg(args, k) == IF Len(args) >= k THEN args[k] ELSE JsUndefined

IsSquare(j) == \E r \in 0..j : r * r = j
IntSqrt(j) == CHOOSE r \in 0..j : r * r = j

RECURSIVE FoldMin(_, _)
FoldMin(args, best) ==
    IF args = <<>> THEN best
    ELSE LET a == ToNumber(Head(args)) IN
         IF a.k = "nan" \/ best.k = "nan" THEN JsNaN
         ELSE IF a.k = "ninf" \/ best.k = "inf" THEN FoldMin(Tail(args), a)
         ELSE IF a.k = "inf" \/ best.k = "ninf" THEN FoldMin(Tail(args), best)
         ELSE IF a.k = "num" /\ best.k = "num"
             THEN FoldMin(Tail(args), IF RLess(a.v, best.v) THEN a ELSE best)
         ELSE FoldMin(Tail(args), JsReal(<<"min", a, best>>))

RECURSIVE FoldMax(_, _)
FoldMax(args, best) ==
    IF args = <<>> THEN best
    ELSE LET a == ToNumber(Head(args)) IN
         IF a.k = "nan" \/ best.k = "nan" THEN JsNaN
         ELSE IF a.k = "inf" \/ best.k = "ninf" THEN FoldMax(Tail(args), a)
         ELSE IF a.k = "ninf" \/ best.k = "inf" THEN FoldMax(Tail(args), best)
         ELSE IF a.k = "num" /\ best.k = "num"
             THEN FoldMax(Tail(args), IF RLess(best.v, a.v) THEN a ELSE best)
         ELSE FoldMax(Tail(args), JsReal(<<"max", a, best>>))

IsZero(a) == a.k = "num" /\ a.v = RZero
IsOne(a) == a.k = "num" /\ a.v = ROne
BeyondOne(a) == a.k = "num" /\ RLess(ROne, RAbs(a.v))
IsCube(j) == \E r \in 0..j : r * r * r = j
IntCbrt(j) == CHOOSE r \in 0..j : r * r * r = j

\* Math.log(a) and Math.log10(a) for a number a, neither NaN nor a "real"
LogOfNumber(name, a, real) ==
    IF a.k = "inf" THEN JsInf
    ELSE IF JsSign(a) < 0 THEN JsNaN
    ELSE IF IsZero(a) THEN JsNegInf
    ELSE IF IsOne(a) THEN JsInt(0)
    ELSE IF name = "log10" /\ a.v \in {RInt(10), RInt(100), RInt(1000)}
        THEN JsInt(IF a.v = RInt(10) THEN 1 ELSE IF a.v = RInt(100) THEN 2 ELSE 3)
    ELSE real

\* Math[name](a) for a function of one argument and the number a, neither
\* NaN nor a "real", that ToNumber made of the argument; real is the result
\* when it is no rational
MathOfNumber(name, a, real) ==
    IF name \in {"sin", "tan"}
        THEN (IF IsInfinite(a) THEN JsNaN ELSE IF IsZero(a) THEN JsInt(0) ELSE real)
    ELSE IF name = "cos"
        THEN (IF IsInfinite(a) THEN JsNaN ELSE IF IsZero(a) THEN JsInt(1) ELSE real)
    ELSE IF name = "asin"
        THEN (IF IsInfinite(a) \/ BeyondOne(a) THEN JsNaN
              ELSE IF IsZero(a) THEN JsInt(0) ELSE real)
    ELSE IF name = "acos"
        THEN (IF IsInfinite(a) \/ BeyondOne(a) THEN JsNaN
              ELSE IF IsOne(a) THEN JsInt(0) ELSE real)
    ELSE IF name = "atan" THEN (IF IsZero(a) THEN JsInt(0) ELSE real)
    ELSE IF name \in {"sinh", "asinh"}
        THEN (IF IsInfinite(a) THEN a ELSE IF IsZero(a) THEN JsInt(0) ELSE real)
    ELSE IF name = "cosh"
        THEN (IF IsInfinite(a) THEN JsInf ELSE IF IsZero(a) THEN JsInt(1) ELSE real)
    ELSE IF name = "tanh"
        THEN (IF IsInfinite(a) THEN JsInt(JsSign(a)) ELSE IF IsZero(a) THEN JsInt(0) ELSE real)
    ELSE IF name = "acosh"
        THEN (IF a.k = "inf" THEN JsInf
              ELSE IF a.k = "ninf" \/ RLess(a.v, ROne) THEN JsNaN
              ELSE IF IsOne(a) THEN JsInt(0) ELSE real)
    ELSE IF name = "atanh"
        THEN (IF IsInfinite(a) \/ BeyondOne(a) THEN JsNaN
              ELSE IF RAbs(a.v) = ROne THEN JsSignedInf(JsSign(a))
              ELSE IF IsZero(a) THEN JsInt(0) ELSE real)
    ELSE IF name = "sqrt"
        THEN (IF a.k = "inf" THEN JsInf
              ELSE IF JsSign(a) < 0 THEN JsNaN
              ELSE IF IsSquare(a.v[1]) /\ IsSquare(a.v[2])
                  THEN JsNum(Rat(IntSqrt(a.v[1]), IntSqrt(a.v[2])))
              ELSE real)
    ELSE IF name = "cbrt"
        THEN (IF IsInfinite(a) THEN a
              ELSE IF RIsInt(a.v) /\ IsCube(Abs(a.v[1]))
                  THEN JsInt(JsSign(a) * IntCbrt(Abs(a.v[1])))
              ELSE real)
    ELSE IF name = "abs" THEN (IF IsInfinite(a) THEN JsInf ELSE JsNum(RAbs(a.v)))
    ELSE IF name = "sign" THEN JsInt(JsSign(a))
    ELSE IF name = "ceil" THEN (IF IsInfinite(a) THEN a ELSE JsInt(RCeil(a.v)))
    ELSE IF name = "floor" THEN (IF IsInfinite(a) THEN a ELSE JsInt(RFloor(a.v)))
    ELSE IF name = "round"
        THEN (IF IsInfinite(a) THEN a ELSE JsInt(RFloor(RAdd(a.v, Rat(1, 2)))))
    ELSE IF name = "trunc" THEN (IF IsInfinite(a) THEN a ELSE JsInt(RTrunc(a.v)))
    ELSE IF name = "exp"
        THEN (IF a.k = "inf" THEN JsInf ELSE IF a.k = "ninf" THEN JsInt(0)
              ELSE IF IsZero(a) THEN JsInt(1) ELSE real)
    ELSE IF name \in {"log", "log10"} THEN LogOfNumber(name, a, real)
    ELSE JsThrow("TypeError")

\* Math[name](a) for a function of one argument, a converted by ToNumber
MathUnary(name, a) ==
    IF a.k = "nan" THEN JsNaN
    ELSE IF a.k = "real" THEN JsReal(<<name, a>>)
    ELSE MathOfNumber(name, a, JsReal(<<name, a>>))

\* Math.log(a), a converted by ToNumber
NumLog(a) ==
    IF a.k = "nan" THEN JsNaN
    ELSE IF a.k = "real" THEN JsReal(<<"log", a>>)
    ELSE LogOfNumber("log", a, JsReal(<<"log", a>>))

\* Math.log(x)
MathLog(x) == NumLog(ToNumber(x))

\* Math[name](...args)
MathFn(name, args) ==
    IF name = "pow" THEN JsPow(Arg(args, 1), Arg(args, 2))
    ELSE IF name = "min" THEN FoldMin(args, JsInf)
    ELSE IF name = "max" THEN FoldMax(args, JsNegInf)
    ELSE MathUnary(name, ToNumber(Arg(args, 1)))

JsPI == JsReal(<<"PI">>)
JsE == JsReal(<<"E">>)

\* ------------------------------------------------------------------------
\* The JavaScript the three evaluators hand to `new Function`: the lexical
\* grammar.  The model covers the characters its inputs are drawn from:
\* white space, digits, letters, _ and the punctuators + - * / % ( ) . , ** ++
\* -- ? and :, with line and block comments and regular expression literals;
\* any other character is taken to be one no token can start with, and a ?
\* to be the conditional operator (the inputs of the model hold no ?? or ?.).  A token is a
\* record [t, s, v]: t is "num", "id", "p" (punctuator), "regex" or "bad" (no
\* token: a SyntaxError), s its text and v the value of a numeric literal.
\* ------------------------------------------------------------------------
Token(type, text, value) == [t |-> type, s |-> text, v |-> value]
BadToken == Token("bad", "", RZero)

IsIdentStart(c) == c \in LowerLetters \cup UpperLetters \cup {"_", "$"}
IsIdentPart(c) == IsIdentStart(c) \/ IsDigit(c)

DigitVal(c) == CHOOSE d \in 0..9 : <<"0", "1", "2", "3", "4", "5", "6", "7", "8", "9">>[d + 1] = c

\* the index after the run of digits (of identifier characters) that starts at p
RECURSIVE DigitsEnd(_, _)
DigitsEnd(s, p) == IF p <= Len(s) /\ IsDigit(s[p]) THEN DigitsEnd(s, p + 1) ELSE p
RECURSIVE IdentEnd(_, _)
IdentEnd(s, p) == IF p <= Len(s) /\ IsIdentPart(s[p]) THEN IdentEnd(s, p + 1) ELSE p

\* the value of the digits s[p..q-1] in the given base
RECURSIVE DigitsValue(_, _, _, _)
DigitsValue(s, p, q, base) ==
    IF q <= p THEN 0 ELSE DigitsValue(s, p, q - 1, base) * base + DigitVal(s[q - 1])

RECURSIVE Pow10(_)
Pow10(k) == IF k = 0 THEN 1 ELSE 10 * Pow10(k - 1)

\* a literal 0d.. of octal digits is a legacy octal integer
IsLegacyOctal(s, p, intEnd) ==
    /\ s[p] = "0"
    /\ intEnd > p + 1
    /\ \A k \in p..(intEnd - 1) : DigitVal(s[k]) < 8

\* the index after the fraction of a literal whose integer digits end before
\* intEnd; intEnd itself when the literal has no point
FractionEnd(s, intEnd, octal) ==
    IF ~octal /\ intEnd <= Len(s) /\ s[intEnd] = "." THEN DigitsEnd(s, intEnd + 1) ELSE intEnd

\* the literal s[p..fracEnd-1]; it must not be followed by the start of an
\* identifier
NumberLiteral(s, p, intEnd, octal, fracEnd) ==
    IF fracEnd <= Len(s) /\ IsIdentStart(s[fracEnd]) THEN [end |-> 0, v |-> RZero]
    ELSE IF fracEnd > intEnd
        THEN [end |-> fracEnd,
              v |-> RAdd(RInt(DigitsValue(s, p, intEnd, 10)),
                         Rat(DigitsValue(s, intEnd + 1, fracEnd, 10),
                             Pow10(fracEnd - intEnd - 1)))]
    ELSE [end |-> fracEnd, v |-> RInt(DigitsValue(s, p, intEnd, IF octal THEN 8 ELSE 10))]

LexNumberFrom(s, p, intEnd, octal) ==
    NumberLiteral(s, p, intEnd, octal, FractionEnd(s, intEnd, octal))
LexNumberTo(s, p, intEnd) == LexNumberFrom(s, p, intEnd, IsLegacyOctal(s, p, intEnd))

\* a numeric literal at p: [end, v], end = 0 when there is none
LexNumber(s, p) == LexNumberTo(s, p, DigitsEnd(s, p))

\* the index of the first "*/" at or after p, 0 when there is none
RECURSIVE BlockCommentEnd(_, _)
BlockCommentEnd(s, p) ==
    IF p + 1 > Len(s) THEN 0
    ELSE IF s[p] = "*" /\ s[p + 1] = "/" THEN p
    ELSE BlockCommentEnd(s, p + 1)

\* the index of the first "/" at or after p, 0 when there is none
RECURSIVE SlashAt(_, _)
SlashAt(s, p) ==
    IF p > Len(s) THEN 0 ELSE IF s[p] = "/" THEN p ELSE SlashAt(s, p + 1)

\* the body s[p..q] of a regular expression literal is a pattern: its
\* parentheses match and each quantifier (* or +) follows an atom
RECURSIVE RegexBodyOk(_, _, _, _, _)
RegexBodyOk(s, p, q, depth, atom) ==
    IF p > q THEN depth = 0
    ELSE IF s[p] = "(" THEN RegexBodyOk(s, p + 1, q, depth + 1, FALSE)
    ELSE IF s[p] = ")" THEN depth > 0 /\ RegexBodyOk(s, p + 1, q, depth - 1, TRUE)
    ELSE IF s[p] \in {"*", "+"} THEN atom /\ RegexBodyOk(s, p + 1, q, depth, FALSE)
    ELSE RegexBodyOk(s, p + 1, q, depth, TRUE)

RegexFlagsOk(s, p, q) ==
    /\ \A k \in p..(q - 1) : s[k] \in {"d", "g", "i", "m", "s", "u", "v", "y"}
    /\ \A j, k \in p..(q - 1) : j # k => s[j] # s[k]
    /\ ~({"u", "v"} \subseteq {s[k] : k \in p..(q - 1)})

\* the tokens of s from p on, after the tokens acc; operand says whether the
\* last token ends an operand, so that a / is a division and not the start
\* of a regular expression literal
RECURSIVE Lex(_, _, _, _)
Lex(s, p, operand, acc) ==
    IF p > Len(s) THEN acc
    ELSE LET c == s[p]
             d == IF p < Len(s) THEN s[p + 1] ELSE ""
         IN
         IF IsSpace(c) THEN Lex(s, p + 1, operand, acc)
         ELSE IF c = "/" /\ d = "/" THEN acc
         ELSE IF c = "/" /\ d = "*"
             THEN LET e == BlockCommentEnd(s, p + 2) IN
                  IF e = 0 THEN Append(acc, BadToken) ELSE Lex(s, e + 2, operand, acc)
         ELSE IF c = "/" /\ operand THEN Lex(s, p + 1, FALSE, Append(acc, Token("p", "/", RZero)))
         ELSE IF c = "/"
             THEN LET e == SlashAt(s, p + 1)
                      f == IdentEnd(s, e + 1)
                  IN IF e = 0 \/ ~RegexBodyOk(s, p + 1, e - 1, 0, FALSE) \/ ~RegexFlagsOk(s, e + 1, f)
                        THEN Append(acc, BadToken)
                        ELSE Lex(s, f, TRUE, Append(acc, Token("regex", "", RZero)))
         ELSE IF IsDigit(c) \/ (c = "." /\ d # "" /\ IsDigit(d))
             THEN LET r == LexNumber(s, p) IN
                  IF r.end = 0 THEN Append(acc, BadToken)
                  ELSE Lex(s, r.end, TRUE, Append(acc, Token("num", "", r.v)))
         ELSE IF IsIdentStart(c)
             THEN LET e == IdentEnd(s, p) IN
                  Lex(s, e, TRUE, Append(acc, Token("id", Join(SubSeq(s, p, e - 1)), RZero)))
         ELSE IF c \in {"*", "+", "-"} /\ d = c
             THEN Lex(s, p + 2, IF c = "*" THEN FALSE ELSE operand,
                      Append(acc, Token("p", c \o c, RZero)))
         ELSE IF c \in {"*", "+", "-", "%", "(", ",", ".", "?", ":"}
             THEN Lex(s, p + 1, FALSE, Append(acc, Token("p", c, RZero)))
         ELSE IF c = ")" THEN Lex(s, p + 1, TRUE, Append(acc, Token("p", c, RZero)))
         ELSE Append(acc, BadToken)

Tokenize(s) == Lex(s, 1, FALSE, <<>>)

\* ------------------------------------------------------------------------
\* The syntactic grammar: expressions built from numeric literals,
\* identifiers, regular expression literals, parentheses, member access,
\* calls, ++ and --, unary + and -, **, * / %, + -, the conditional operator
\* ? : and the comma.  A parse
\* result is [ok, p, ast]: p is the index of the next token and ast a tuple
\* whose first element names the node.
\* ------------------------------------------------------------------------
NoParse == [ok |-> FALSE, p |-> 0, ast |-> <<>>]
Parsed(next, tree) == [ok |-> TRUE, p |-> next, ast |-> tree]

Peek(ts, p) == IF p <= Len(ts) THEN ts[p] ELSE Token("eof", "", RZero)
IsP(tok, text) == tok.t = "p" /\ tok.s = text
IsOneOf(tok, texts) == tok.t = "p" /\ tok.s \in texts

\* a simple assignment target: an identifier or a member access, possibly in
\* parentheses.  A call is accepted too and fails when it is evaluated
RECURSIVE IsTarget(_)
IsTarget(ast) ==
    IF ast[1] = "paren" THEN IsTarget(ast[2]) ELSE ast[1] \in {"id", "member", "call"}

RECURSIVE ParseExpr(_, _)
RECURSIVE ParseExprRest(_, _, _)
RECURSIVE ParseCond(_, _)
RECURSIVE ParseAdd(_, _)
RECURSIVE ParseAddRest(_, _, _)
RECURSIVE ParseMul(_, _)
RECURSIVE ParseMulRest(_, _, _)
RECURSIVE ParseExp(_, _)
RECURSIVE ParseUnary(_, _)
RECURSIVE ParseUpdate(_, _)
RECURSIVE ParseLhsRest(_, _, _)
RECURSIVE ParsePrimary(_, _)
RECURSIVE ParseArgs(_, _, _)

\* Each operator hands the result of the operand it parsed to the operator
\* that reads on after it.

\* the ")" after the expression e
CloseParen(ts, e) ==
    IF e.ok /\ IsP(Peek(ts, e.p), ")") THEN Parsed(e.p + 1, <<"paren", e.ast>>) ELSE NoParse

ParsePrimary(ts, p) ==
    IF Peek(ts, p).t = "num" THEN Parsed(p + 1, <<"num", Peek(ts, p).v>>)
    ELSE IF Peek(ts, p).t = "id" THEN Parsed(p + 1, <<"id", Peek(ts, p).s>>)
    ELSE IF Peek(ts, p).t = "regex" THEN Parsed(p + 1, <<"regex">>)
    ELSE IF IsP(Peek(ts, p), "(") THEN CloseParen(ts, ParseExpr(ts, p + 1))
    ELSE NoParse

\* the "," or ")" after the argument e
ArgsNext(ts, acc, e) ==
    IF ~e.ok THEN NoParse
    ELSE IF IsP(Peek(ts, e.p), ",") THEN ParseArgs(ts, e.p + 1, Append(acc, e.ast))
    ELSE IF IsP(Peek(ts, e.p), ")") THEN Parsed(e.p + 1, Append(acc, e.ast))
    ELSE NoParse

\* the arguments of a call, after its "(": [ok, p, ast], ast the list of them
ParseArgs(ts, p, acc) ==
    IF IsP(Peek(ts, p), ")") THEN Parsed(p + 1, acc) ELSE ArgsNext(ts, acc, ParseCond(ts, p))

\* the call of ast with the arguments a
CallNext(ts, ast, a) ==
    IF a.ok THEN ParseLhsRest(ts, a.p, <<"call", ast, a.ast>>) ELSE NoParse

\* member accesses and calls after the expression ast
ParseLhsRest(ts, p, ast) ==
    IF IsP(Peek(ts, p), ".")
        THEN (IF Peek(ts, p + 1).t = "id"
                 THEN ParseLhsRest(ts, p + 2, <<"member", ast, Peek(ts, p + 1).s>>)
                 ELSE NoParse)
    ELSE IF IsP(Peek(ts, p), "(") THEN CallNext(ts, ast, ParseArgs(ts, p + 1, <<>>))
    ELSE Parsed(p, ast)

LhsNext(ts, pr) == IF pr.ok THEN ParseLhsRest(ts, pr.p, pr.ast) ELSE NoParse

\* ++e and --e
PrefixUpdate(op, e) ==
    IF e.ok /\ IsTarget(e.ast) THEN Parsed(e.p, <<"update", op, TRUE, e.ast>>) ELSE NoParse

\* e++ and e--, or e alone
PostfixUpdate(ts, e) ==
    IF e.ok /\ IsOneOf(Peek(ts, e.p), {"++", "--"})
        THEN (IF IsTarget(e.ast)
                 THEN Parsed(e.p + 1, <<"update", Peek(ts, e.p).s, FALSE, e.ast>>)
                 ELSE NoParse)
        ELSE e

ParseUpdate(ts, p) ==
    IF IsOneOf(Peek(ts, p), {"++", "--"})
        THEN PrefixUpdate(Peek(ts, p).s, ParseUnary(ts, p + 1))
        ELSE PostfixUpdate(ts, LhsNext(ts, ParsePrimary(ts, p)))

Signed(op, e) ==
    IF e.ok THEN Parsed(e.p, <<IF op = "-" THEN "neg" ELSE "pos", e.ast>>) ELSE NoParse

ParseUnary(ts, p) ==
    IF IsOneOf(Peek(ts, p), {"+", "-"})
        THEN Signed(Peek(ts, p).s, ParseUnary(ts, p + 1))
        ELSE ParseUpdate(ts, p)

\* the node of the operator op on left and the operand r
Binary(op, left, r) ==
    IF r.ok THEN Parsed(r.p, <<"bin", op, left, r.ast>>) ELSE NoParse

\* a ** b groups to the right, and its left operand is no unary expression
ExpNext(ts, u) ==
    IF u.ok /\ IsP(Peek(ts, u.p), "**")
        THEN (IF u.ast[1] \in {"neg", "pos"} THEN NoParse
              ELSE Binary("**", u.ast, ParseExp(ts, u.p + 1)))
        ELSE u

ParseExp(ts, p) == ExpNext(ts, ParseUnary(ts, p))

MulNext(ts, l) == IF l.ok THEN ParseMulRest(ts, l.p, l.ast) ELSE NoParse

ParseMulRest(ts, p, left) ==
    IF IsOneOf(Peek(ts, p), {"*", "/", "%"})
        THEN MulNext(ts, Binary(Peek(ts, p).s, left, ParseExp(ts, p + 1)))
        ELSE Parsed(p, left)

ParseMul(ts, p) == MulNext(ts, ParseExp(ts, p))

AddNext(ts, l) == IF l.ok THEN ParseAddRest(ts, l.p, l.ast) ELSE NoParse

ParseAddRest(ts, p, left) ==
    IF IsOneOf(Peek(ts, p), {"+", "-"})
        THEN AddNext(ts, Binary(Peek(ts, p).s, left, ParseMul(ts, p + 1)))
        ELSE Parsed(p, left)

ParseAdd(ts, p) == AddNext(ts, ParseMul(ts, p))

\* c ? a : b, each branch an expression without a comma
CondElse(c, a, b) ==
    IF b.ok THEN Parsed(b.p, <<"cond", c.ast, a.ast, b.ast>>) ELSE NoParse
CondThen(ts, c, a) ==
    IF a.ok /\ IsP(Peek(ts, a.p), ":") THEN CondElse(c, a, ParseCond(ts, a.p + 1)) ELSE NoParse
CondNext(ts, c) ==
    IF c.ok /\ IsP(Peek(ts, c.p), "?") THEN CondThen(ts, c, ParseCond(ts, c.p + 1)) ELSE c

ParseCond(ts, p) == CondNext(ts, ParseAdd(ts, p))

Comma(left, r) == IF r.ok THEN Parsed(r.p, <<"comma", left, r.ast>>) ELSE NoParse

ExprNext(ts, l) == IF l.ok THEN ParseExprRest(ts, l.p, l.ast) ELSE NoParse

ParseExprRest(ts, p, left) ==
    IF IsP(Peek(ts, p), ",")
        THEN ExprNext(ts, Comma(left, ParseCond(ts, p + 1)))
        ELSE Parsed(p, left)

ParseExpr(ts, p) == ExprNext(ts, ParseCond(ts, p))

Compiled(tree) == [ok |-> TRUE, ast |-> tree]
NoCompile == [ok |-> FALSE, ast |-> <<>>]

\* the expression e is the whole of the tokens
WholeText(ts, e) == IF e.ok /\ e.p = Len(ts) + 1 THEN Compiled(e.ast) ELSE NoCompile

CompileTokens(ts) ==
    IF \E k \in 1..Len(ts) : ts[k].t = "bad" THEN NoCompile
    ELSE IF ts = <<>> THEN Compiled(<<"undefined">>)
    ELSE WholeText(ts, ParseExpr(ts, 1))

\* new Function(..., "return " + text): [ok, ast]; ok is FALSE for the
\* SyntaxError the constructor throws.  An empty text is a plain `return`
JsCompile(text) == CompileTokens(Tokenize(text))

\* ------------------------------------------------------------------------
\* The function table of parseFunction (src/constants.tsx 750-806)
\* ------------------------------------------------------------------------
\* Object.keys(funcMap), in the order of the source
funcNames ==
    <<"sin", "cos", "tan", "asin", "acos", "atan", "sinh", "cosh", "tanh",
      "asinh", "acosh", "atanh", "sqrt", "cbrt", "abs", "sign", "ceil", "floor",
      "round", "trunc", "exp", "pow", "min", "max", "log", "log10", "log2", "ln",
      "sec", "csc", "cot", "asec", "acsc", "acot", "sech", "csch", "coth",
      "cosec", "fact", "factorial">>
funcNameSet == {funcNames[k] : k \in 1..Len(funcNames)}

\* the entries that are a Math function under its own name
DirectMath ==
    {"sin", "cos", "tan", "asin", "acos", "atan", "sinh", "cosh", "tanh",
     "asinh", "acosh", "atanh", "sqrt", "cbrt", "abs", "sign", "ceil", "floor",
     "round", "trunc", "exp", "pow", "min", "max"}

RECURSIVE FactLoop(_)
FactLoop(j) == IF j <= 1 THEN 1 ELSE j * FactLoop(j - 1)

\* factorial (src/constants.tsx 750-759); the product is computed up to 12!
\* and is the "real" <<"fact", n>> from 13! to 170!
factorial(a) ==
    IF ~IsNumber(a) \/ a.k \in {"nan", "inf", "ninf", "real"} THEN JsNaN
    ELSE IF JsSign(a) < 0 \/ ~RIsInt(a.v) THEN JsNaN
    ELSE IF a.v[1] > 170 THEN JsInf
    ELSE IF a.v[1] <= 12 THEN JsInt(FactLoop(a.v[1]))
    ELSE JsReal(<<"fact", a>>)

\* base <= 0 || base === 1, base converted by ToNumber for the comparisons
BadBase(b) == (b.k = "num" /\ (JsSign(b) <= 0 \/ b.v = ROne)) \/ b.k = "ninf"

\* customLog (src/constants.tsx 762-766)
customLog(x, base) ==
    IF base.k = "undefined" THEN MathLog(x)
    ELSE IF BadBase(ToNumber(base)) THEN JsNaN
    ELSE JsDiv(MathLog(x), MathLog(base))

\* the entries (x) => 1 / Math.f(x), with the f of each
Reciprocals ==
    [sec |-> "cos", csc |-> "sin", cosec |-> "sin", cot |-> "tan",
     sech |-> "cosh", csch |-> "sinh", coth |-> "tanh"]
\* the entries (x) => Math.f(1 / x), with the f of each
OfReciprocal == [asec |-> "acos", acsc |-> "asin"]

\* the Math function the entry name calls, the arguments it hands to it and
\* what it makes of its result v; acot is Math.PI / 2 - Math.atan(x)
MathName(name) ==
    IF name \in DirectMath THEN name
    ELSE IF name = "ln" THEN "log"
    ELSE IF name \in DOMAIN Reciprocals THEN Reciprocals[name]
    ELSE IF name \in DOMAIN OfReciprocal THEN OfReciprocal[name]
    ELSE "atan"
MathArgs(name, args) ==
    IF name \in DirectMath \cup {"ln"} THEN args
    ELSE IF name \in DOMAIN OfReciprocal THEN <<JsDiv(JsInt(1), Arg(args, 1))>>
    ELSE <<Arg(args, 1)>>
FromMath(name, v) ==
    IF name \in DOMAIN Reciprocals THEN JsDiv(JsInt(1), v)
    ELSE IF name = "acot" THEN JsSub(JsDiv(JsPI, JsInt(2)), v)
    ELSE v

\* the second argument of customLog in the entries log, log10 and log2
LogBase(name, args) ==
    IF name = "log" THEN Arg(args, 2) ELSE IF name = "log10" THEN JsInt(10) ELSE JsInt(2)

\* funcMap[name](...args)
funcMap(name, args) ==
    IF name \in {"log", "log10", "log2"} THEN customLog(Arg(args, 1), LogBase(name, args))
    ELSE IF name \in {"fact", "factorial"} THEN factorial(Arg(args, 1))
    ELSE FromMath(name, MathFn(MathName(name), MathArgs(name, args)))

\* ------------------------------------------------------------------------
\* The scopes a compiled text is evaluated in
\* ------------------------------------------------------------------------
\* Names of the global scope of a browser window that lower-case letters
\* spell: a body given to `new Function` sees its parameters and the global
\* scope, nothing else
AmbientFunctions ==
    {"stop", "print", "focus", "blur", "scroll", "atob", "btoa", "prompt", "confirm"}
AmbientObjects == {"top", "history", "location", "navigator", "frames"}

\* the value of the identifier name in the scope (a function from the
\* parameter names to their values)
Lookup(scope, name) ==
    IF name \in DOMAIN scope THEN scope[name]
    ELSE IF name = "Math" THEN JsVal("Math", <<>>)
    ELSE IF name \in AmbientFunctions THEN JsFunction(<<"window", name>>)
    ELSE IF name \in AmbientObjects THEN JsObject
    ELSE JsThrow("ReferenceError")

\* the value of object.name
Member(object, name) ==
    IF object.k \in {"undefined", "null"} THEN JsThrow("TypeError")
    ELSE IF object.k = "Math"
        THEN (IF name = "PI" THEN JsPI
              ELSE IF name = "E" THEN JsE
              ELSE IF name \in DirectMath \cup {"log", "log10"} THEN JsFunction(<<"Math", name>>)
              ELSE JsUndefined)
    ELSE IF object.k = "funcMap"
        THEN (IF name \in funcNameSet THEN JsFunction(<<"FN", name>>) ELSE JsUndefined)
    ELSE JsUndefined

\* d => Math.sin(d * Math.PI / 180) and its like (src/constants.tsx
\* 469-471): the arguments Math.sin gets
DegreeArgs(args) == <<JsDiv(JsMul(Arg(args, 1), JsPI), JsInt(180))>>

\* the call f(...args) of a value
CallValue(f, args) ==
    IF f.k # "function" THEN JsThrow("TypeError")
    ELSE IF f.v[1][1] = "FN" THEN funcMap(f.v[1][2], args)
    ELSE IF f.v[1][1] \in {"Math", "deg"}
        THEN MathFn(f.v[1][2], IF f.v[1][1] = "deg" THEN DegreeArgs(args) ELSE args)
    ELSE JsUndefined

BinaryOp(op, a, b) ==
    IF op = "+" THEN JsAdd(a, b)
    ELSE IF op = "-" THEN JsSub(a, b)
    ELSE IF op = "*" THEN JsMul(a, b)
    ELSE IF op = "/" THEN JsDiv(a, b)
    ELSE IF op = "%" THEN JsMod(a, b)
    ELSE JsPow(a, b)

\* ------------------------------------------------------------------------
\* Evaluation of a syntax tree: [val, scope], the value (or the exception
\* thrown) and the scope after the side effects of ++ and --
\* ------------------------------------------------------------------------
Result(value, scope) == [val |-> value, scope |-> scope]

RECURSIVE Unparen(_)
Unparen(ast) == IF ast[1] = "paren" THEN Unparen(ast[2]) ELSE ast

\* the operand of ++ or -- after the step
Stepped(op, before) ==
    IF op = "++" THEN JsAdd(before, JsInt(1)) ELSE JsSub(before, JsInt(1))

\* the scope after the assignment of value to target: a parameter is
\* updated, anything else leaves the scope as it is
Assign(target, scope, value) ==
    IF target[1] = "id" /\ target[2] \in DOMAIN scope
        THEN [scope EXCEPT ![target[2]] = value]
        ELSE scope

Updated(prefix, target, scope, before, after) ==
    Result(IF prefix THEN after ELSE before, Assign(target, scope, after))

\* ++ and -- on target, whose evaluation gave old; prefix tells ++e from e++
EvalUpdate(op, prefix, target, old) ==
    IF IsThrow(old.val) THEN old
    ELSE IF target[1] = "call" THEN Result(JsThrow("ReferenceError"), old.scope)
    ELSE Updated(prefix, target, old.scope, ToNumber(old.val), Stepped(op, ToNumber(old.val)))

RECURSIVE Eval(_, _)
RECURSIVE EvalArgs(_, _, _)

\* the arguments of a call, left to right: [ok, val, scope], val the list of
\* values, or with ok FALSE the exception the first failing argument throws
EvalArgs(args, scope, acc) ==
    IF args = <<>> THEN [ok |-> TRUE, val |-> acc, scope |-> scope]
    ELSE LET r == Eval(Head(args), scope) IN
         IF IsThrow(r.val) THEN [ok |-> FALSE, val |-> r.val, scope |-> r.scope]
         ELSE EvalArgs(Tail(args), r.scope, Append(acc, r.val))

Eval(ast, scope) ==
    LET node == ast[1] IN
    IF node = "undefined" THEN Result(JsUndefined, scope)
    ELSE IF node = "num" THEN Result(JsNum(ast[2]), scope)
    ELSE IF node = "regex" THEN Result(JsObject, scope)
    ELSE IF node = "id" THEN Result(Lookup(scope, ast[2]), scope)
    ELSE IF node = "paren" THEN Eval(ast[2], scope)
    ELSE IF node = "member"
        THEN LET o == Eval(ast[2], scope) IN
             IF IsThrow(o.val) THEN o ELSE Result(Member(o.val, ast[3]), o.scope)
    ELSE IF node = "call"
        THEN LET f == Eval(ast[2], scope) IN
             IF IsThrow(f.val) THEN f
             ELSE LET a == EvalArgs(ast[3], f.scope, <<>>) IN
                  IF a.ok THEN Result(CallValue(f.val, a.val), a.scope)
                  ELSE Result(a.val, a.scope)
    ELSE IF node \in {"neg", "pos"}
        THEN LET e == Eval(ast[2], scope) IN
             IF IsThrow(e.val) THEN e
             ELSE Result(IF node = "neg" THEN JsNeg(e.val) ELSE ToNumber(e.val), e.scope)
    ELSE IF node = "bin"
        THEN LET l == Eval(ast[3], scope) IN
             IF IsThrow(l.val) THEN l
             ELSE LET r == Eval(ast[4], l.scope) IN
                  IF IsThrow(r.val) THEN r
                  ELSE Result(BinaryOp(ast[2], l.val, r.val), r.scope)
    ELSE IF node = "comma"
        THEN LET l == Eval(ast[2], scope) IN
             IF IsThrow(l.val) THEN l ELSE Eval(ast[3], l.scope)
    ELSE IF node = "cond"
        THEN LET c == Eval(ast[2], scope) IN
             IF IsThrow(c.val) THEN c
             ELSE Eval(IF ToBoolean(c.val) THEN ast[3] ELSE ast[4], c.scope)
    ELSE EvalUpdate(ast[2], ast[3], Unparen(ast[4]), Eval(Unparen(ast[4]), scope))

\* ------------------------------------------------------------------------
\* String.prototype.replace with the global regular expressions of the source
\* ------------------------------------------------------------------------
\* the characters of a string literal
Chars(w) == [k \in 1..Len(w) |-> SubSeq(w, k, k)]

MathPI == Chars("Math.PI")
MathE == Chars("Math.E")

Least(S) == CHOOSE k \in S : \A j \in S : k <= j

\* s.replace(/c/g, w) for a character c
RECURSIVE ReplaceChar(_, _, _)
ReplaceChar(s, c, w) ==
    IF s = <<>> THEN <<>>
    ELSE (IF Head(s) = c THEN w ELSE <<Head(s)>>) \o ReplaceChar(Tail(s), c, w)

\* s.replace(/w1|w2|.../g, ''): at each position the first alternative that
\* matches is removed
RECURSIVE RemoveWords(_, _)
RemoveWords(s, ws) ==
    IF s = <<>> THEN <<>>
    ELSE LET hits == {k \in 1..Len(ws) : StartsWithAt(s, 1, ws[k])} IN
         IF hits # {}
             THEN RemoveWords(SubSeq(s, Len(ws[Least(hits)]) + 1, Len(s)), ws)
             ELSE <<Head(s)>> \o RemoveWords(Tail(s), ws)

\* s.replace(/(A)(B)/g, '$1*$2') for two character classes: a match takes
\* both characters, and the search goes on after them
RECURSIVE InsertStar(_, _, _)
InsertStar(s, A, B) ==
    IF Len(s) < 2 THEN s
    ELSE IF s[1] \in A /\ s[2] \in B
        THEN <<s[1], "*", s[2]>> \o InsertStar(SubSeq(s, 3, Len(s)), A, B)
    ELSE <<s[1]>> \o InsertStar(Tail(s), A, B)

\* s.replace(/\bw\b/g, r) from position p on, for a word w of letters
RECURSIVE ReplaceWord(_, _, _, _)
ReplaceWord(s, p, w, r) ==
    IF p > Len(s) THEN <<>>
    ELSE IF /\ StartsWithAt(s, p, w)
            /\ (p = 1 \/ ~IsWordChar(s[p - 1]))
            /\ (p + Len(w) > Len(s) \/ ~IsWordChar(s[p + Len(w)]))
        THEN r \o ReplaceWord(s, p + Len(w), w, r)
    ELSE <<s[p]>> \o ReplaceWord(s, p + 1, w, r)

\* ------------------------------------------------------------------------
\* safeEvaluate (src/constants.tsx 438-452)
\* ------------------------------------------------------------------------
\* the class [0-9+\-*/().\s%]
SafeChar(c) ==
    IsDigit(c) \/ c \in {"+", "-", "*", "/", "(", ")", ".", "%"} \/ IsSpace(c)

\* expression.replace(/[^0-9+\-*/().\s%]/g, '')
SafeSanitize_Trim(s) == trim(s)
SafeSanitize(s) == SelectSeq(s, SafeChar)

\* a function without parameters sees the global scope only
NoParameters == [name \in {} |-> NoValue]

\* new Function(...parameters, `return ${text}`)(...values): the value
\* returned or the exception thrown, a SyntaxError by the constructor and any
\* other by the call
CallCompiled(c, scope) ==
    IF c.ok THEN Eval(c.ast, scope).val ELSE JsThrow("SyntaxError")
NewFunction(text, scope) == CallCompiled(JsCompile(text), scope)

\* try { return ... } catch (e) { console.error(...); return null; }
CatchNull_Rethrow(outcome) == outcome
CatchNull(outcome) == IF IsThrow(outcome) THEN JsNull ELSE outcome

\* lengths of the expressions enumerated over SafeAlphabet and SciAlphabet
MaxSafeLen == 3
MaxSciLen == 3

SafeAlphabet == {"2", "0", "+", "-", "*", "/", "(", ")", ".", "%", " ", "a"}
SafeSamples ==
    {"2+2", "2+", "()", "5(3)", "1/0", "0/0", "2 + 2", " 2+2", "(1+2)*3", "10%4",
     "2**0.5", "2+2;", "2+2#", "alert(1)", "1/(2-2)", "-1/0", "3.5*2", "x=1"}
SafeInputs == StringsUpTo(SafeAlphabet, MaxSafeLen) \cup {Chars(w) : w \in SafeSamples}

SEInit ==
    /\ pc = "se_start"
    /\ expression \in SafeInputs
    /\ isDeg = TRUE /\ sanitized = <<>> /\ evaluated = FALSE /\ result = NoValue
    /\ PrimeIdle /\ InverseIdle /\ ParseIdle /\ AlgebraIdle /\ QuadraticIdle /\ FactIdle /\ GridIdle /\ BasicIdle /\ CurrencyIdle

\* const sanitized = expression.replace(...)
SESanitize ==
    /\ pc = "se_start"
    /\ sanitized' = SafeSanitize(expression)
    /\ pc' = "se_check"
    /\ UNCHANGED <<expression, isDeg, evaluated, result>>
    /\ EvaluateFrame

\* if (sanitized !== expression.trim()) return null;
SECheck ==
    /\ pc = "se_check"
    /\ IF sanitized # trim(expression)
          THEN result' = JsNull /\ pc' = "se_done"
          ELSE result' = result /\ pc' = "se_eval"
    /\ UNCHANGED <<expression, isDeg, sanitized, evaluated>>
    /\ EvaluateFrame

\* try { return new Function(`return ${sanitized}`)(); } catch (e) { return null; }
\* An exception that leaves the try statement ends the call in "se_throw"
SEEvaluate ==
    /\ pc = "se_eval"
    /\ evaluated' = TRUE
    /\ result' = CatchNull(NewFunction(sanitized, NoParameters))
    /\ pc' = IF IsThrow(result') THEN "se_throw" ELSE "se_done"
    /\ UNCHANGED <<expression, isDeg, sanitized>>
    /\ EvaluateFrame

\* ------------------------------------------------------------------------
\* evaluateScientific (src/constants.tsx 455-487)
\* ------------------------------------------------------------------------
\* expression.replace(/\^/g, '**').replace(/π/g, 'Math.PI').replace(/e/g, 'Math.E')
SciSubstitute(s) ==
    ReplaceChar(ReplaceChar(ReplaceChar(s, "^", <<"*", "*">>), "π", MathPI), "e", MathE)

\* validationRegex.test(sanitized.replace(/Math\.PI|Math\.E/g, '')), the
\* class of validationRegex being [^0-9+\-*/().\s%a-z]
SciInvalid(s) ==
    LET rest == RemoveWords(s, <<MathPI, MathE>>) IN
    \E k \in 1..Len(rest) : ~(SafeChar(rest[k]) \/ IsLower(rest[k]))

\* the six parameters of the compiled function and the values bound to them
SciScope(deg) ==
    LET trig == IF deg THEN "deg" ELSE "Math" IN
    [sin |-> JsFunction(<<trig, "sin">>),
     cos |-> JsFunction(<<trig, "cos">>),
     tan |-> JsFunction(<<trig, "tan">>),
     log |-> JsFunction(<<"Math", "log10">>),
     ln |-> JsFunction(<<"Math", "log">>),
     sqrt |-> JsFunction(<<"Math", "sqrt">>)]

SciAlphabet == {"t", "o", "p", "e", "2", "(", ")", "/", "^", "-", "#"}
SciSamples ==
    {"sqrt(-1)", "sqrt(4)", "sin", "sin(0)", "cos(0)", "tan(0)", "log(100)", "ln(1)",
     "1/0", "2^3", "π", "2*π", "stop()", "print()", "abs(2)", "history", "sin(π)",
     "2+2", "2+", "log(0)", "ln(e)", "2+2#", "Sin(0)", "sqrt(2)*sqrt(2)"}
SciInputs == StringsUpTo(SciAlphabet, MaxSciLen) \cup {Chars(w) : w \in SciSamples}

SciInit ==
    /\ pc = "sci_start"
    /\ expression \in SciInputs
    /\ isDeg \in BOOLEAN
    /\ sanitized = <<>> /\ evaluated = FALSE /\ result = NoValue
    /\ PrimeIdle /\ InverseIdle /\ ParseIdle /\ AlgebraIdle /\ QuadraticIdle /\ FactIdle /\ GridIdle /\ BasicIdle /\ CurrencyIdle

\* const sanitized = expression.replace(...).replace(...).replace(...)
SciReplace ==
    /\ pc = "sci_start"
    /\ sanitized' = SciSubstitute(expression)
    /\ pc' = "sci_check"
    /\ UNCHANGED <<expression, isDeg, evaluated, result>>
    /\ EvaluateFrame

\* if (validationRegex.test(...)) return null;
SciValidate ==
    /\ pc = "sci_check"
    /\ IF SciInvalid(sanitized)
          THEN result' = JsNull /\ pc' = "sci_done"
          ELSE result' = result /\ pc' = "sci_eval"
    /\ UNCHANGED <<expression, isDeg, sanitized, evaluated>>
    /\ EvaluateFrame

\* try { ...; return new Function('sin', ..., `return ${sanitized}`)(sin, ...); }
\* catch (e) { return null; }
SciEvaluate ==
    /\ pc = "sci_eval"
    /\ evaluated' = TRUE
    /\ result' = CatchNull(NewFunction(sanitized, SciScope(isDeg)))
    /\ pc' = IF IsThrow(result') THEN "sci_throw" ELSE "sci_done"
    /\ UNCHANGED <<expression, isDeg, sanitized>>
    /\ EvaluateFrame

EvaluateInit == SEInit \/ SciInit
EvaluateNext ==
    \/ SESanitize
    \/ SECheck
    \/ SEEvaluate
    \/ SciReplace
    \/ SciValidate
    \/ SciEvaluate

SpecEvaluate == EvaluateInit /\ [][EvaluateNext]_vars

\* ------------------------------------------------------------------------
\* parseFunction (src/constants.tsx 770-877)
\* ------------------------------------------------------------------------
\* new Set([...Object.keys(funcMap), 'pi', 'e', 'x'])
knownIdentifiers == funcNameSet \cup {"pi", "e", "x"}

\* the index after the run of lower-case letters that starts at p
RECURSIVE LowerEnd(_, _)
LowerEnd(s, p) == IF p <= Len(s) /\ IsLower(s[p]) THEN LowerEnd(s, p + 1) ELSE p

\* s.match(/[a-z]+/g) || [] from position p on
RECURSIVE MatchLetters(_, _)
MatchLetters(s, p) ==
    IF p > Len(s) THEN <<>>
    ELSE IF IsLower(s[p])
        THEN <<Join(SubSeq(s, p, LowerEnd(s, p) - 1))>> \o MatchLetters(s, LowerEnd(s, p))
    ELSE MatchLetters(s, p + 1)

\* funcStr.toLowerCase().match(/[a-z]+/g) || []
identifiersInUse(s) == MatchLetters(toLowerCase(s), 1)

\* knownIdentifiers.has(identifier)
IsKnown_Any(identifier) == TRUE
IsKnown(identifier) == identifier \in knownIdentifiers

NotKnown(identifier) == ~IsKnown(identifier)

\* new Error(`Unknown function or variable: "${identifier}"`)
UnknownMessage(identifier) == "Unknown function or variable: \"" \o identifier \o "\""
\* new Error("Could not parse the function. Please check the syntax.")
ParseErrorMessage == "Could not parse the function. Please check the syntax."

NotSpace(c) == ~IsSpace(c)
\* funcStr.toLowerCase().replace(/\s/g, '')
Normalize(s) == SelectSeq(toLowerCase(s), NotSpace)

LetterOrParen == LowerLetters \cup {"("}

\* the four replacements of lines 831-840
ImplicitMultiplication(s) ==
    LET case1 == InsertStar(s, Digits, LetterOrParen)
        case2 == InsertStar(case1, {")"}, LetterOrParen \cup Digits)
        case3 == InsertStar(case2, {"x"}, Digits)
    IN InsertStar(case3, {"x"}, LetterOrParen)

\* .replace(/\^/g, '**').replace(/\bpi\b/g, 'Math.PI').replace(/\be\b/g, 'Math.E')
ReplaceConstants(s) ==
    ReplaceWord(ReplaceWord(ReplaceChar(s, "^", <<"*", "*">>), 1, <<"p", "i">>, MathPI),
                1, <<"e">>, MathE)

RECURSIVE SkipSpace(_, _)
SkipSpace(s, p) == IF p <= Len(s) /\ IsSpace(s[p]) THEN SkipSpace(s, p + 1) ELSE p

\* the alternatives of funcRegex that match at p: \b, the name, and (?=\s*\()
FuncRegexHits(s, p) ==
    {k \in 1..Len(funcNames) :
        /\ (p = 1 \/ ~IsWordChar(s[p - 1]))
        /\ StartsWithAt(s, p, Chars(funcNames[k]))
        /\ LET q == SkipSpace(s, p + Len(funcNames[k])) IN q <= Len(s) /\ s[q] = "("}

\* processedStr.replace(funcRegex, (match) => `FN.${match}`) from position p on
RECURSIVE Qualify(_, _)
Qualify(s, p) ==
    IF p > Len(s) THEN <<>>
    ELSE LET hits == FuncRegexHits(s, p) IN
         IF hits # {}
             THEN LET name == funcNames[Least(hits)] IN
                  Chars("FN.") \o Chars(name) \o Qualify(s, p + Len(name))
             ELSE <<s[p]>> \o Qualify(s, p + 1)

\* the arguments func is called with: x and the function table
ParseScope(x) == [x |-> x, FN |-> JsVal("funcMap", <<>>)]

\* try { return <processedStr>; } catch (e) { return null; }
InnerCatch_Rethrow(outcome) == outcome
InnerCatch(outcome) == IF IsThrow(outcome) THEN JsNull ELSE outcome

\* func(x, funcMap) for the compiled body
func(body, x) == InnerCatch(Eval(body, ParseScope(x)).val)

\* boundFunc(1), the probe of line 870, on the outcome c of the constructor
Probe(c) == IF c.ok THEN func(c.ast, JsInt(1)) ELSE JsThrow("SyntaxError")

\* the sample points boundFunc is called at: the halves in -MaxX..MaxX
MaxX == 2
XValues == {JsNum(Rat(k, 2)) : k \in (-2 * MaxX)..(2 * MaxX)}

\* length of the inputs enumerated over FuncAlphabet
MaxFuncLen == 3
FuncAlphabet == {"x", "e", "2", "(", ")", "/", "-", "^", ".", " "}
FuncSamples ==
    {"max(x,1)", "min(x,1)", "pow(x,2)", "log(x,2)", "1/x", "foo(x)", "x+foo",
     "foo+bar", "pi(x)", "2x", "x^2", "sin(x)+cos(x)", "Sin(X)", "x-1?e(x):x",
     "2pi", "x(x+1)", "(x+1)(x-1)", "xsin(x)", "x sin(x)", "sin (x)", "2sin(x)",
     "sqrt(x-1)", "1/(x*x-1)", "x+", "2*pi*x", "e^x", "fact(x+3)", "exp(1)",
     "x x x", "(x)2(x)", "2**x", "2(x)3"}
DirectCalls == {Chars(funcNames[k]) \o Chars("(x)") : k \in 1..Len(funcNames)}
FuncInputs ==
    StringsUpTo(FuncAlphabet, MaxFuncLen) \cup DirectCalls \cup {Chars(w) : w \in FuncSamples}

PFnInit ==
    /\ pc = "pfn_start"
    /\ funcStr \in FuncInputs
    /\ processedStr = <<>> /\ boundFunc = <<>> /\ thrown = ""
    /\ xArg = NoValue /\ y = NoValue
    /\ PrimeIdle /\ InverseIdle /\ EvaluateIdle /\ AlgebraIdle /\ QuadraticIdle /\ FactIdle /\ GridIdle /\ BasicIdle /\ CurrencyIdle

\* for (const identifier of identifiersInUse) if (!knownIdentifiers.has(identifier)) throw ...
PFnWhitelist ==
    /\ pc = "pfn_start"
    /\ LET unknown == SelectSeq(identifiersInUse(funcStr), NotKnown) IN
       IF unknown # <<>>
          THEN thrown' = UnknownMessage(unknown[1]) /\ pc' = "pfn_throw_unknown"
          ELSE thrown' = thrown /\ pc' = "pfn_normalize"
    /\ UNCHANGED <<funcStr, processedStr, boundFunc, xArg, y>>
    /\ ParseFrame

\* let processedStr = funcStr.toLowerCase().replace(/\s/g, '')
PFnNormalize ==
    /\ pc = "pfn_normalize"
    /\ processedStr' = Normalize(funcStr)
    /\ pc' = "pfn_implicit"
    /\ UNCHANGED <<funcStr, boundFunc, thrown, xArg, y>>
    /\ ParseFrame

PFnImplicit ==
    /\ pc = "pfn_implicit"
    /\ processedStr' = ImplicitMultiplication(processedStr)
    /\ pc' = "pfn_constants"
    /\ UNCHANGED <<funcStr, boundFunc, thrown, xArg, y>>
    /\ ParseFrame

PFnConstants ==
    /\ pc = "pfn_constants"
    /\ processedStr' = ReplaceConstants(processedStr)
    /\ pc' = "pfn_qualify"
    /\ UNCHANGED <<funcStr, boundFunc, thrown, xArg, y>>
    /\ ParseFrame

PFnQualify ==
    /\ pc = "pfn_qualify"
    /\ processedStr' = Qualify(processedStr, 1)
    /\ pc' = "pfn_compile"
    /\ UNCHANGED <<funcStr, boundFunc, thrown, xArg, y>>
    /\ ParseFrame

\* try { const func = new Function(...); boundFunc(1); return boundFunc; }
\* catch (e) { throw new Error("Could not parse the function. ...") }
PFnCompile ==
    /\ pc = "pfn_compile"
    /\ \E c \in {JsCompile(processedStr)} :
          IF IsThrow(Probe(c))
             THEN boundFunc' = boundFunc /\ thrown' = ParseErrorMessage /\ pc' = "pfn_throw_parse"
             ELSE boundFunc' = c.ast /\ thrown' = thrown /\ pc' = "pfn_ready"
    /\ UNCHANGED <<funcStr, processedStr, xArg, y>>
    /\ ParseFrame

\* a call boundFunc(x) by the holder of the function returned.  An exception
\* that leaves the call ends it in "pfn_call_throw"
PFnCall ==
    /\ pc \in {"pfn_ready", "pfn_returned"}
    /\ \E x \in XValues :
          /\ xArg' = x
          /\ y' = func(boundFunc, x)
    /\ pc' = IF IsThrow(y') THEN "pfn_call_throw" ELSE "pfn_returned"
    /\ UNCHANGED <<funcStr, processedStr, boundFunc, thrown>>
    /\ ParseFrame

ParseNext ==
    \/ PFnWhitelist
    \/ PFnNormalize
    \/ PFnImplicit
    \/ PFnConstants
    \/ PFnQualify
    \/ PFnCompile
    \/ PFnCall

SpecParse == PFnInit /\ [][ParseNext]_vars

\* ------------------------------------------------------------------------
\* Properties of parseFunction
\* ------------------------------------------------------------------------
\* the maximal runs of lower-case letters of s, as strings
LetterRuns(s) ==
    {Join(SubSeq(s, ab[1], ab[2])) :
        ab \in {cd \in (1..Len(s)) \X (1..Len(s)) :
                  /\ cd[1] <= cd[2]
                  /\ \A k \in cd[1]..cd[2] : s[k] \in LowerLetters
                  /\ (cd[1] = 1 \/ s[cd[1] - 1] \notin LowerLetters)
                  /\ (cd[2] = Len(s) \/ s[cd[2] + 1] \notin LowerLetters)}}

\* the runs of letters of the lower-cased input that are outside the vocabulary
Offenders == LetterRuns(toLowerCase(funcStr)) \ (funcNameSet \cup {"pi", "e", "x"})

\* C3: whenever a maximal run of letters of the lower-cased input is outside
\* the vocabulary (function-table names, pi, e, x), parseFunction throws
\* before it rewrites or compiles anything, the message names one of the
\* offending runs and no function is returned; when every run is in the
\* vocabulary the whitelist does not throw.
C3_UnknownIdentifierNamed ==
    pc # "pfn_start" =>
        IF Offenders # {}
            THEN /\ pc = "pfn_throw_unknown"
                 /\ processedStr = <<>> /\ boundFunc = <<>>
                 /\ \E r \in Offenders :
                        thrown = "Unknown function or variable: \"" \o r \o "\""
            ELSE pc # "pfn_throw_unknown"

C3_Witness ==
    /\ pc = "pfn_throw_unknown"
    /\ funcStr = Chars("foo(x)")
    /\ thrown = "Unknown function or variable: \"foo\""
    /\ boundFunc = <<>>

\* C4: for every name f of the function table, parsing the direct call f(x)
\* (and max(x,1)) leaves the name intact through the implicit-multiplication
\* passes and qualifies it to the table (FN.f), and the function returned
\* gives funcMap[f](x) at every x, not null.
C4_EveryTableFunctionResolves ==
    /\ \A k \in 1..Len(funcNames) :
          funcStr = Chars(funcNames[k]) \o Chars("(x)") =>
              /\ pc \in {"pfn_compile", "pfn_ready", "pfn_returned"} =>
                     processedStr = Chars("FN.") \o funcStr
              /\ pc = "pfn_returned" =>
                     /\ y.k = funcMap(funcNames[k], <<xArg>>).k
                     /\ y = funcMap(funcNames[k], <<xArg>>)
    /\ (funcStr = Chars("max(x,1)") /\ pc = "pfn_returned") =>
           /\ processedStr = Chars("FN.max(x,1)")
           /\ y.k = funcMap("max", <<xArg, JsInt(1)>>).k

\* C5: a function returned by parseFunction gives, at every x, a finite
\* number or null: never NaN, an infinity or a value that is no number.
C5_SampleFiniteOrNull ==
    pc = "pfn_returned" => (y.k = "null" \/ JsIsFinite(y))

\* C6: a call of the function returned by parseFunction never throws: when
\* the evaluation of the compiled expression at x raises an exception (as a
\* reference to a name left unqualified does), the call returns null.
C6_CallNeverThrows ==
    /\ pc # "pfn_call_throw"
    /\ pc = "pfn_returned" =>
           /\ ~IsThrow(y)
           /\ IsThrow(Eval(boundFunc, ParseScope(xArg)).val) => y = JsNull

C6_Witness ==
    /\ pc = "pfn_returned"
    /\ funcStr = Chars("x-1?e(x):x")
    /\ xArg = JsInt(2)
    /\ Eval(boundFunc, ParseScope(xArg)).val = JsThrow("TypeError")
    /\ y = JsNull

\* ------------------------------------------------------------------------
\* Properties of safeEvaluate and evaluateScientific
\* ------------------------------------------------------------------------
\* C7: safeEvaluate and evaluateScientific return a finite number or null:
\* never NaN, an infinity, undefined or a value that is no number.
C7_ResultFiniteOrNull ==
    pc \in {"se_done", "sci_done"} => (result.k = "null" \/ JsIsFinite(result))

\* the identifiers of the text handed to the validation, the two constants
\* apart
SciIdentifiers == LetterRuns(RemoveWords(sanitized, <<MathPI, MathE>>))

\* C8: evaluateScientific refuses, without evaluating it, every expression
\* that after the substitutions holds an identifier other than sin, cos, tan,
\* log, ln and sqrt: it returns null and `new Function` is never reached.
C8_OnlyTheSixFunctions ==
    (pc \in {"sci_check", "sci_eval", "sci_done", "sci_throw"}
        /\ SciIdentifiers \ {"sin", "cos", "tan", "log", "ln", "sqrt"} # {})
    => /\ ~evaluated
       /\ pc \in {"sci_check", "sci_done"}
       /\ pc = "sci_done" => result = JsNull

AllowList ==
    {"0", "1", "2", "3", "4", "5", "6", "7", "8", "9",
     "+", "-", "*", "/", "(", ")", ".", "%", " ", "\t"}

\* C9: safeEvaluate refuses every expression that holds a character outside
\* the allow-list (digits, + - * / ( ) . %, white space): it returns null and
\* the text never reaches `new Function`.
C9_ForeignCharacterRefused ==
    (pc \in {"se_check", "se_eval", "se_done", "se_throw"}
        /\ \E k \in 1..Len(expression) : expression[k] \notin AllowList)
    => /\ ~evaluated
       /\ pc \in {"se_check", "se_done"}
       /\ pc = "se_done" => result = JsNull

C9_Witness ==
    /\ pc = "se_done"
    /\ expression = Chars("alert(1)")
    /\ sanitized = Chars("(1)")
    /\ ~evaluated
    /\ result = JsNull

\* C10: no exception leaves safeEvaluate: the call always returns, with null
\* for the ill-formed 2+, () and 5(3), and with 4 for 2+2.
C10_NoExceptionEscapes ==
    /\ pc # "se_throw"
    /\ (pc = "se_done" /\ expression \in {Chars("2+"), Chars("()"), Chars("5(3)")})
           => (evaluated /\ result = JsNull)
    /\ (pc = "se_done" /\ expression = Chars("2+2")) => result = JsInt(4)

C10_Witness ==
    /\ pc = "se_done"
    /\ expression = Chars("5(3)")
    /\ evaluated
    /\ NewFunction(sanitized, NoParameters) = JsThrow("TypeError")
    /\ result = JsNull

\* ------------------------------------------------------------------------
\* The matrix library (src/constants.tsx 493-680)
\* ------------------------------------------------------------------------
\* entries of the matrices handed to the library: -MaxCell..MaxCell for the
\* functions of one matrix, 0..MaxCell for the functions of two and at order 3
MaxCell == 1

\* What a call of the library ends with: a value it returns, or the error it
\* throws.  OrderMismatch is `new Error("Wrong Order: ...")`, Singular is the
\* error of matrixInverse on a zero determinant, TypeError is what the engine
\* raises on reading a property of undefined.
Returned(kind, value) == [k |-> kind, v |-> value]
Thrown(class) == [k |-> class, v |-> <<>>]
OrderMismatch == Thrown("OrderMismatch")
Singular == Thrown("Singular")
TypeError == Thrown("TypeError")
IsThrown(o) == o.k \in {"OrderMismatch", "Singular", "TypeError"}

\* a.map((row, i) => row.map((val, j) => val + b[i][j]))
Entrywise_Swapped(a, b, negate) ==
    [r \in 1..Len(a) |-> [c \in 1..Len(a[r]) |->
        IF negate THEN RSub(b[r][c], a[r][c]) ELSE RAdd(a[r][c], b[r][c])]]
Entrywise(a, b, negate) ==
    [r \in 1..Len(a) |-> [c \in 1..Len(a[r]) |->
        IF negate THEN RSub(a[r][c], b[r][c]) ELSE RAdd(a[r][c], b[r][c])]]

\* a.length !== b.length || a[0].length !== b[0].length; with as many rows in
\* both, a[0] of a matrix of no row is undefined and a[0].length a TypeError
SameOrder(a, b) ==
    IF Len(a) # Len(b) THEN Returned("boolean", FALSE)
    ELSE IF a = <<>> THEN TypeError
    ELSE Returned("boolean", Len(a[1]) = Len(b[1]))

Checked(same, a, b, negate) ==
    IF IsThrown(same) THEN same
    ELSE IF ~same.v THEN OrderMismatch
    ELSE Returned("matrix", Entrywise(a, b, negate))

matrixAdd(a, b) == Checked(SameOrder(a, b), a, b, FALSE)
matrixSubtract(a, b) == Checked(SameOrder(a, b), a, b, TRUE)

\* the call of matrixMultiply as the callers see it (507-523): the check of
\* the orders reads a[0], the allocation of the result reads b[0]
Multiplied(a, b) ==
    IF a = <<>> THEN TypeError
    ELSE IF Cols(a) # Rows(b) THEN OrderMismatch
    ELSE IF b = <<>> THEN TypeError
    ELSE Returned("matrix", matrixMultiply(a, b))

\* transpose (567-570)
transpose(a) ==
    IF a = <<>> THEN <<>>
    ELSE IF Len(a[1]) = 0 THEN <<>>
    ELSE [c \in 1..Len(a[1]) |-> [r \in 1..Len(a) |-> a[r][c]]]

\* determinant with its check of the order (530-533)
determinantOf(a) ==
    IF NotSquare(a) THEN OrderMismatch ELSE Returned("number", determinant(a))

\* minorMatrix (544-553) and cofactorMatrix (555-565): the determinant of
\* every minor, taken with the check of determinant
MinorThrows(a) ==
    \E r \in 1..Len(a), c \in 1..Len(a) : IsThrown(determinantOf(getMinor(a, r, c)))

Minors(a, signed) ==
    [r \in 1..Len(a) |-> [c \in 1..Len(a) |->
        IF signed THEN RMul(determinantOf(getMinor(a, r, c)).v, SignOf(r + c - 2))
        ELSE determinantOf(getMinor(a, r, c)).v]]

MinorsOf(a, signed) ==
    IF NotSquare(a) THEN OrderMismatch
    ELSE IF MinorThrows(a) THEN OrderMismatch
    ELSE Returned("matrix", Minors(a, signed))

minorMatrix(a) == MinorsOf(a, FALSE)
cofactorMatrix(a) == MinorsOf(a, TRUE)

\* adjoint (572-574)
Transposed(o) == IF IsThrown(o) THEN o ELSE Returned("matrix", transpose(o.v))
adjoint(a) == Transposed(cofactorMatrix(a))

\* matrixInverse (577-617) as one call
RECURSIVE GaussJordan(_, _)
GaussJordan(aug, c) ==
    IF c > Len(aug) THEN aug
    ELSE GaussJordan(
            EliminateColumn(NormalizeRow(SwapRows(aug, c, MaxRow(aug, c)), c), c),
            c + 1)

InverseOfSquare(a, det) ==
    IF IsSingular(det) THEN Singular
    ELSE Returned("matrix", RightHalf(GaussJordan(Augment(a), 1)))

matrixInverse(a) ==
    IF NotSquare(a) THEN OrderMismatch ELSE InverseOfSquare(a, determinant(a))

\* matrixDivide (620-623)
MultiplyBy(a, inv) == IF IsThrown(inv) THEN inv ELSE Multiplied(a, inv.v)
matrixDivide(a, b) == MultiplyBy(a, matrixInverse(b))

\* solveLinearSystem (626-638)
Column(b) == [r \in 1..Len(b) |-> <<b[r]>>]
Flatten(o) == IF IsThrown(o) THEN o ELSE Returned("vector", [r \in 1..Len(o.v) |-> o.v[r][1]])
\* the two checks of the orders (627-632)
SolveGuard_SquareOnly(a, b) == NotSquare(a)
SolveGuard(a, b) == NotSquare(a) \/ Len(a) # Len(b)
\* lines 634-637, past the checks
SolveWith(inv, b) ==
    IF IsThrown(inv) THEN inv ELSE Flatten(Multiplied(inv.v, Column(b)))

\* eigen2x2 (641-680).  The entries are integers, so the eigenvalues lie in
\* the field of the numbers p + q * sqrt(D), D the discriminant: such a number
\* is the pair <<p, q>> of two rationals, and q is left zero when D is a
\* perfect square, which makes the pair of a number unique.
SRat(r) == <<r, RZero>>
SZero == SRat(RZero)
SOne == SRat(ROne)
SAdd(s, t) == <<RAdd(s[1], t[1]), RAdd(s[2], t[2])>>
SSub(s, t) == <<RSub(s[1], t[1]), RSub(s[2], t[2])>>
SNeg(s) == SSub(SZero, s)
SMul(s, t, D) ==
    <<RAdd(RMul(s[1], t[1]), RMul(RMul(s[2], t[2]), RInt(D))),
      RAdd(RMul(s[1], t[2]), RMul(s[2], t[1]))>>
SHalf(s) == <<RDiv(s[1], RInt(2)), RDiv(s[2], RInt(2))>>
\* Math.sqrt(discriminant)
SqrtOf(D) == IF IsSquare(D) THEN SRat(RInt(IntSqrt(D))) ELSE <<RZero, ROne>>

\* the floor of the square root, by bisection
RECURSIVE FloorSqrt(_, _, _)
FloorSqrt(j, lo, hi) ==
    IF lo = hi THEN lo
    ELSE IF ((lo + hi + 1) \div 2) * ((lo + hi + 1) \div 2) <= j
        THEN FloorSqrt(j, (lo + hi + 1) \div 2, hi)
    ELSE FloorSqrt(j, lo, (lo + hi + 1) \div 2 - 1)

\* the nearest integer to the square root of j
NearestToRoot(j, r) == IF j > r * r + r THEN r + 1 ELSE r
RoundSqrt(j) == NearestToRoot(j, FloorSqrt(j, 0, 46340))

\* x.toFixed(4) as the integer 10^4 * x rounds to: of trace / 2, and of
\* Math.sqrt(-discriminant) / 2 = sqrt(-discriminant * 5000^2) / 10^4
FixedHalf(trace) == trace * 5000
FixedRoot(negDisc) == RoundSqrt(negDisc * 25000000)

\* `${realPart} + ${imagPart}i` and `${realPart} - ${imagPart}i`
ComplexText(re, sign, im) == <<re, sign, im, "i">>

ComplexEigen(trace, negDisc) ==
    [eigenvalues |-> <<ComplexText(FixedHalf(trace), "+", FixedRoot(negDisc)),
                       ComplexText(FixedHalf(trace), "-", FixedRoot(negDisc))>>,
     eigenvectors |-> <<"Complex eigenvectors not calculated.">>]

\* getVector (664-668); of an integer, |x| > 1e-9 says x # 0
getVector_SecondBranch(lambda, a) ==
    IF a[2][1] # RZero
        THEN <<SRat(a[1][2]), SNeg(SSub(SRat(a[1][1]), lambda))>>
    ELSE IF a[1][2] # RZero
        THEN <<SRat(a[1][2]), SNeg(SSub(SRat(a[1][1]), lambda))>>
    ELSE IF SSub(SRat(a[1][1]), lambda) = SZero THEN <<SOne, SZero>>
    ELSE <<SZero, SOne>>
getVector(lambda, a) ==
    IF a[2][1] # RZero
        THEN <<SNeg(SSub(SRat(a[2][2]), lambda)), SRat(a[2][1])>>
    ELSE IF a[1][2] # RZero
        THEN <<SRat(a[1][2]), SNeg(SSub(SRat(a[1][1]), lambda))>>
    ELSE IF SSub(SRat(a[1][1]), lambda) = SZero THEN <<SOne, SZero>>
    ELSE <<SZero, SOne>>

\* normalize (670-674): the vector v / mag is the pair of v and mag^2; the
\* vector returned as it is, of magnitude below 1e-9, has 1 for the divisor.
\* The magnitudes met here are 0 or at least 1.
SquaredLength(v, D) == SAdd(SMul(v[1], v[1], D), SMul(v[2], v[2], D))
Scaled(v, magSquared) ==
    [dir |-> v, over |-> IF magSquared = SZero THEN SOne ELSE magSquared]
normalize(v, D) == Scaled(v, SquaredLength(v, D))

Lambda(trace, root) == SHalf(SAdd(SRat(trace), root))
EigenPair(a, l1, l2, D) ==
    [eigenvalues |-> <<l1, l2>>,
     eigenvectors |-> <<normalize(getVector(l1, a), D), normalize(getVector(l2, a), D)>>]
RealEigen(a, trace, D) ==
    EigenPair(a, Lambda(trace, SqrtOf(D)), Lambda(trace, SNeg(SqrtOf(D))), D)

Trace(a) == RAdd(a[1][1], a[2][2])
\* trace * trace - 4 * det, an integer
Discriminant(a) == RSub(RMul(Trace(a), Trace(a)), RMul(RInt(4), determinant(a)))[1]

EigenOf(a, D) ==
    IF D < 0 THEN ComplexEigen(Trace(a)[1], -D) ELSE RealEigen(a, Trace(a), D)

eigen2x2(a) ==
    IF Len(a) # 2 THEN OrderMismatch
    ELSE IF Len(a[1]) # 2 THEN OrderMismatch
    ELSE Returned("eigen", EigenOf(a, Discriminant(a)))

\* ------------------------------------------------------------------------
\* One call of a function of the library
\* ------------------------------------------------------------------------
\* entries of the matrices handed to eigen2x2: -MaxEigen..MaxEigen
MaxEigen == 2

\* the matrices of at most two rows and two columns: the one of no row, those
\* of rows of no column, and the six orders from 1 x 1 to 2 x 2
SmallMatrices(S) ==
    {<<>>} \cup UNION {IntMatrices(r, c, S) : r \in 1..2, c \in 0..2}

WideMatrices ==
    IntMatrices(3, 3, 0..MaxCell) \cup IntMatrices(2, 3, 0..MaxCell)
        \cup IntMatrices(3, 2, 0..MaxCell)

\* [[1, 2], [3, 4]]
OneToFour == <<<<RInt(1), RInt(2)>>, <<RInt(3), RInt(4)>>>>

\* [[2, 0], [0, 3]]
TwoAndThree == <<<<RInt(2), RZero>>, <<RZero, RInt(3)>>>>

Vectors == UNION {[1..k -> {RInt(v) : v \in 0..MaxCell}] : k \in 0..3}

OfTwo == {"matrixAdd", "matrixSubtract", "matrixMultiply", "matrixDivide"}
OfOne == {"transpose", "determinant", "minorMatrix", "cofactorMatrix", "adjoint"}
Operations == OfTwo \cup OfOne \cup {"solveLinearSystem", "eigen2x2"}

FirstArguments(op) ==
    IF op \in OfTwo THEN SmallMatrices(0..MaxCell)
    ELSE IF op \in OfOne
        THEN SmallMatrices((-MaxCell)..MaxCell) \cup WideMatrices \cup {OneToFour}
    ELSE IF op = "solveLinearSystem" THEN SmallMatrices((-MaxCell)..MaxCell)
    ELSE SmallMatrices(0..MaxCell) \cup IntMatrices(2, 2, (-MaxEigen)..MaxEigen)
            \cup {TwoAndThree}

SecondArguments(op) ==
    IF op \in OfTwo THEN SmallMatrices(0..MaxCell)
    ELSE IF op = "solveLinearSystem" THEN Vectors
    ELSE {<<>>}

AlgebraInit ==
    /\ pc = "alg_call"
    /\ operation \in Operations
    /\ argA \in FirstArguments(operation)
    /\ argB \in SecondArguments(operation)
    /\ inverted = FALSE
    /\ answer = NoValue
    /\ PrimeIdle /\ InverseIdle /\ EvaluateIdle /\ ParseIdle /\ QuadraticIdle /\ FactIdle /\ GridIdle /\ BasicIdle /\ CurrencyIdle

\* the call ends: with the value it returns, or with the error it throws
Ends(o, reachedInverse) ==
    /\ answer' = o
    /\ inverted' = reachedInverse
    /\ pc' = IF IsThrown(o) THEN "alg_throw" ELSE "alg_done"
    /\ UNCHANGED <<operation, argA, argB>>
    /\ AlgebraFrame

Called(op) == pc = "alg_call" /\ operation = op

Add == Called("matrixAdd") /\ Ends(matrixAdd(argA, argB), FALSE)
Subtract == Called("matrixSubtract") /\ Ends(matrixSubtract(argA, argB), FALSE)
Multiply == Called("matrixMultiply") /\ Ends(Multiplied(argA, argB), FALSE)
Transpose == Called("transpose") /\ Ends(Returned("matrix", transpose(argA)), FALSE)
Determinant == Called("determinant") /\ Ends(determinantOf(argA), FALSE)
MinorMatrix == Called("minorMatrix") /\ Ends(minorMatrix(argA), FALSE)
CofactorMatrix == Called("cofactorMatrix") /\ Ends(cofactorMatrix(argA), FALSE)
Adjoint == Called("adjoint") /\ Ends(adjoint(argA), FALSE)
\* matrixDivide starts with the call of matrixInverse (621)
Divide == Called("matrixDivide") /\ Ends(matrixDivide(argA, argB), TRUE)
Eigen == Called("eigen2x2") /\ Ends(eigen2x2(argA), FALSE)

\* solveLinearSystem up to its checks of the orders (627-632)
SolveCheck ==
    /\ Called("solveLinearSystem")
    /\ IF SolveGuard(argA, argB)
         THEN Ends(OrderMismatch, FALSE)
         ELSE /\ pc' = "alg_solve"
              /\ UNCHANGED algebraVars
              /\ AlgebraFrame

\* and from the call of matrixInverse on (634-637)
SolveInvert ==
    /\ pc = "alg_solve"
    /\ Ends(SolveWith(matrixInverse(argA), argB), TRUE)

AlgebraNext ==
    \/ Add \/ Subtract \/ Multiply \/ Transpose \/ Determinant \/ MinorMatrix
    \/ CofactorMatrix \/ Adjoint \/ Divide \/ Eigen \/ SolveCheck \/ SolveInvert

SpecAlgebra == AlgebraInit /\ [][AlgebraNext]_vars

\* ------------------------------------------------------------------------
\* Properties of the matrix library
\* ------------------------------------------------------------------------
Ended(ops) == pc \in {"alg_done", "alg_throw"} /\ operation \in ops

\* a matrix of the order of a whose entry (r, c) is a[r][c] + b[r][c], or
\* a[r][c] - b[r][c]
IsEntrywise(o, a, b, negate) ==
    /\ Rows(o) = Rows(a)
    /\ \A r \in 1..Rows(a) :
          /\ Len(o[r]) = Cols(a)
          /\ \A c \in 1..Cols(a) :
                o[r][c] = IF negate THEN RSub(a[r][c], b[r][c])
                          ELSE RAdd(a[r][c], b[r][c])

C12_TransposeInvolution ==
    Ended({"transpose"}) => transpose(answer.v) = argA

\* the determinant as the sum over the permutations of the columns
ColumnOrders(k) ==
    {sigma \in [1..k -> 1..k] : \A r, c \in 1..k : r # c => sigma[r] # sigma[c]}
Inversions(sigma) ==
    Cardinality({rc \in (DOMAIN sigma) \X (DOMAIN sigma) :
                    rc[1] < rc[2] /\ sigma[rc[1]] > sigma[rc[2]]})
RECURSIVE RProduct(_)
RProduct(s) == IF s = <<>> THEN ROne ELSE RMul(Head(s), RProduct(Tail(s)))
PermutationTerm(a, sigma) ==
    RMul(IF Inversions(sigma) % 2 = 0 THEN ROne ELSE RInt(-1),
         RProduct([r \in 1..Len(a) |-> a[r][sigma[r]]]))
RECURSIVE SumOfTerms(_, _)
SumOfTerms(a, perms) ==
    IF perms = {} THEN RZero
    ELSE LET sigma == CHOOSE x \in perms : TRUE
         IN RAdd(PermutationTerm(a, sigma), SumOfTerms(a, perms \ {sigma}))
PermutationSum(a) == SumOfTerms(a, ColumnOrders(Len(a)))

\* C13: determinant of a square matrix of order n >= 1 of integers is the true
\* determinant, the sum over the permutations (-2 for [[1,2],[3,4]]); of the
\* matrix of no row and of a matrix that is not square it throws the Wrong
\* Order error and returns no number.
C13_DeterminantIsPermutationSum ==
    Ended({"determinant"})
    => /\ IF Rows(argA) = 0 \/ Rows(argA) # Cols(argA)
            THEN pc = "alg_throw" /\ answer = OrderMismatch
            ELSE /\ pc = "alg_done"
                 /\ answer.k = "number"
                 /\ answer.v = PermutationSum(argA)
       /\ argA = OneToFour => answer.v = RInt(-2)

C13_Witness ==
    /\ pc = "alg_done"
    /\ operation = "determinant"
    /\ Rows(argA) = 3 /\ Cols(argA) = 3
    /\ answer.k = "number"
    /\ answer.v = RInt(-2)
    /\ PermutationSum(argA) = RInt(-2)

\* the determinant of M with row r and column c removed, and the cofactor
MinorAt(a, r, c) == PermutationSum(getMinor(a, r, c))
CofactorAt(a, r, c) ==
    RMul(IF (r + c) % 2 = 0 THEN ROne ELSE RInt(-1), MinorAt(a, r, c))
EntryAt(op, a, r, c) ==
    IF op = "minorMatrix" THEN MinorAt(a, r, c)
    ELSE IF op = "cofactorMatrix" THEN CofactorAt(a, r, c)
    ELSE CofactorAt(a, c, r)

\* C14: minorMatrix, cofactorMatrix and adjoint are defined on every square
\* matrix of order n >= 1, order 1 included: they return the n x n matrix of
\* the determinants of M without row r and column c (the cofactor with the
\* sign (-1)^(r+c), the adjoint transposed), and throw only when M is not
\* square.
C14_MinorsOfEverySquare ==
    Ended({"minorMatrix", "cofactorMatrix", "adjoint"})
    => IF Rows(argA) = 0 \/ Rows(argA) # Cols(argA)
         THEN pc = "alg_throw" /\ answer = OrderMismatch
         ELSE /\ pc = "alg_done"
              /\ answer.k = "matrix"
              /\ Rows(answer.v) = Rows(argA)
              /\ \A r \in 1..Rows(argA) :
                    /\ Len(answer.v[r]) = Rows(argA)
                    /\ \A c \in 1..Rows(argA) :
                          answer.v[r][c] = EntryAt(operation, argA, r, c)

\* C16: matrixDivide(A, B) throws the Wrong Order error whenever B is not
\* square or cols(A) # rows(B), whatever the entries, a singular square B
\* included, and returns no matrix for such orders.
C16_DivideOrderMismatch ==
    (Ended({"matrixDivide"})
        /\ (Rows(argB) = 0 \/ Rows(argB) # Cols(argB) \/ Cols(argA) # Rows(argB)))
    => pc = "alg_throw" /\ answer.k = "OrderMismatch"

\* A . x, for a matrix A and a flat vector x
Applied(a, x) == [r \in 1..Rows(a) |-> RSum([c \in 1..Cols(a) |-> RMul(a[r][c], x[c])])]

\* C17: solveLinearSystem(A, b) throws the Wrong Order error, before any
\* inversion is attempted, if A is not square or rows(A) # len(b); for a
\* non-singular n x n matrix A and b of length n it returns a flat vector x of
\* length n with A . x = b.
C17_SolveLinearSystem ==
    /\ (pc = "alg_solve") =>
          (Rows(argA) > 0 /\ Rows(argA) = Cols(argA) /\ Rows(argA) = Len(argB))
    /\ Ended({"solveLinearSystem"})
       => IF Rows(argA) = 0 \/ Rows(argA) # Cols(argA) \/ Rows(argA) # Len(argB)
            THEN pc = "alg_throw" /\ answer = OrderMismatch /\ ~inverted
            ELSE PermutationSum(argA) # RZero
                 => /\ pc = "alg_done"
                    /\ inverted
                    /\ answer.k = "vector"
                    /\ Len(answer.v) = Rows(argA)
                    /\ Applied(argA, answer.v) = argB

C17_Witness ==
    /\ pc = "alg_done"
    /\ operation = "solveLinearSystem"
    /\ Rows(argA) = 2
    /\ argA[1][2] # RZero /\ argA[2][1] # RZero
    /\ argB = <<RInt(1), RZero>>
    /\ answer.k = "vector"
    /\ Applied(argA, answer.v) = argB

\* C18: eigen2x2 of every 2 x 2 matrix, in the real case and in the complex
\* case alike, returns exactly two eigenvalues and exactly two eigenvector
\* entries, entry i for eigenvalue i; of a matrix that is not 2 x 2 it throws
\* the Wrong Order error.
C18_EigenShape ==
    Ended({"eigen2x2"})
    => IF Rows(argA) = 2 /\ Cols(argA) = 2
         THEN /\ pc = "alg_done"
              /\ answer.k = "eigen"
              /\ Len(answer.v.eigenvalues) = 2
              /\ Len(answer.v.eigenvectors) = 2
         ELSE pc = "alg_throw" /\ answer.k = "OrderMismatch"

\* (A - lambda I) . v, for a 2 x 2 matrix A of integers
Residual(a, lambda, v, D) ==
    <<SAdd(SMul(SSub(SRat(a[1][1]), lambda), v[1], D), SMul(SRat(a[1][2]), v[2], D)),
      SAdd(SMul(SRat(a[2][1]), v[1], D), SMul(SSub(SRat(a[2][2]), lambda), v[2], D))>>

\* v / mag is an eigenvector of length 1 for lambda
IsUnitEigenvector(a, lambda, vec, D) ==
    /\ vec.dir # <<SZero, SZero>>
    /\ vec.over # SZero
    /\ SquaredLength(vec.dir, D) = vec.over
    /\ Residual(a, lambda, vec.dir, D) = <<SZero, SZero>>

EigenIdentities(a, e, D) ==
    /\ Len(e.eigenvalues) = 2 /\ Len(e.eigenvectors) = 2
    /\ SAdd(e.eigenvalues[1], e.eigenvalues[2]) = SRat(Trace(a))
    /\ SMul(e.eigenvalues[1], e.eigenvalues[2], D) = SRat(PermutationSum(a))
    /\ \A k \in 1..2 : IsUnitEigenvector(a, e.eigenvalues[k], e.eigenvectors[k], D)

RealCase ==
    /\ Rows(argA) = 2 /\ Cols(argA) = 2
    /\ RSub(RMul(Trace(argA), Trace(argA)), RMul(RInt(4), PermutationSum(argA)))[1] >= 0

\* C19: in the real case, trace^2 - 4 det >= 0, the two eigenvalues eigen2x2
\* returns have the sum a + d and the product ad - bc, and the eigenvector at
\* index i is not zero, has length 1 and satisfies (A - lambda_i I) v_i = 0,
\* in each of the three branches of getVector; [[2,0],[0,3]] pairs 2 with (1,0)
\* and 3 with (0,1).
C19_EigenRealCase ==
    (Ended({"eigen2x2"}) /\ RealCase)
    => /\ pc = "alg_done"
       /\ answer.k = "eigen"
       /\ EigenIdentities(argA, answer.v, Discriminant(argA))
       /\ (argA = TwoAndThree)
          => \A k \in 1..2 :
                /\ answer.v.eigenvalues[k] = SRat(RInt(2))
                   => answer.v.eigenvectors[k] = [dir |-> <<SOne, SZero>>, over |-> SOne]
                /\ answer.v.eigenvalues[k] = SRat(RInt(3))
                   => answer.v.eigenvectors[k] = [dir |-> <<SZero, SOne>>, over |-> SOne]
                /\ answer.v.eigenvalues[k] \in {SRat(RInt(2)), SRat(RInt(3))}

C19_Witness ==
    /\ pc = "alg_done"
    /\ operation = "eigen2x2"
    /\ RealCase
    /\ argA[2][1] # RZero
    /\ ~IsSquare(Discriminant(argA))
    /\ answer.v.eigenvalues[1] # answer.v.eigenvalues[2]
    /\ EigenIdentities(argA, answer.v, Discriminant(argA))

\* ------------------------------------------------------------------------
\* The errors of matrixInverse
\* ------------------------------------------------------------------------
\* no matrix is returned, and no step of the elimination was made
NothingDone == augmented = <<>> /\ col = 0 /\ inverse = <<>>

\* C15: matrixInverse of a matrix that is not square, or of no row, throws the
\* Wrong Order error, and of a square matrix whose determinant is below 1e-10
\* in absolute value the singular-matrix error; in both cases no matrix is
\* returned and no elimination step is made.  (A rational of the model is 0 or
\* at least 2^-31 in absolute value: below 1e-10 says zero.)
C15_InverseErrors ==
    pc \in {"mi_throw_order", "mi_throw_singular", "mi_pivot", "mi_norm",
            "mi_elim", "mi_ret", "mi_done"}
    => IF Rows(m) = 0 \/ Rows(m) # Cols(m)
         THEN pc = "mi_throw_order" /\ NothingDone
         ELSE IF PermutationSum(m) = RZero
         THEN pc = "mi_throw_singular" /\ NothingDone
         ELSE pc \notin {"mi_throw_order", "mi_throw_singular"}

C15_Witness ==
    /\ pc = "mi_throw_singular"
    /\ Rows(m) = 3 /\ Cols(m) = 3
    /\ m[1][1] # RZero /\ m[2][2] # RZero /\ m[3][3] # RZero
    /\ PermutationSum(m) = RZero
    /\ NothingDone

\* ------------------------------------------------------------------------
\* solveQuadratic (src/constants.tsx 683-747)
\* ------------------------------------------------------------------------
\* the coefficients are the integers -MaxCoeff..MaxCoeff
MaxCoeff == 3

\* x.toPrecision(4): the text of four significant digits of x, kept as a term
\* over the exact value of x
Precision4(x) == <<"toPrecision(4)", x>>

\* b * b - 4 * a * c
DiscriminantOf(a, b, c) == RSub(RMul(b, b), RMul(RMul(RInt(4), a), c))

\* -b / (2 * a) and a * (vertexX ** 2) + b * vertexX + c
VertexX(a, b) == RDiv(RSub(RZero, b), RMul(RInt(2), a))
VertexY(a, b, c, h) == RAdd(RAdd(RMul(a, RMul(h, h)), RMul(b, h)), c)

\* the vertex form (704-709)
AStr(a) == IF a = ROne THEN "" ELSE IF a = RInt(-1) THEN "-" ELSE Precision4(a)
HStr(h) ==
    IF h = RZero THEN <<"x">>
    ELSE <<"(x ", IF RGreater(h, RZero) THEN "-" ELSE "+", " ", Precision4(RAbs(h)), ")">>
KStr(k) ==
    IF k = RZero THEN <<>>
    ELSE IF RGreater(k, RZero) THEN <<" + ", Precision4(k)>>
    ELSE <<" - ", Precision4(RAbs(k))>>
VertexForm(a, h, k) == <<"y = ", AStr(a), HStr(h), "^2", KStr(k)>>

\* (-b + sign * Math.sqrt(D)) / (2 * a), a number p + q * sqrt(D)
RootOf(a, b, root) ==
    <<RDiv(RAdd(RSub(RZero, b), root[1]), RMul(RInt(2), a)),
      RDiv(root[2], RMul(RInt(2), a))>>
\* Math.sqrt(D) / (2 * a)
ImagPart(a, root) == <<RDiv(root[1], RMul(RInt(2), a)), RDiv(root[2], RMul(RInt(2), a))>>

RealRoots(a, b, D) ==
    <<Precision4(RootOf(a, b, SqrtOf(D))), Precision4(RootOf(a, b, SNeg(SqrtOf(D))))>>
SingleRoot(a, b) == <<Precision4(VertexX(a, b))>>
ComplexRoots(a, b, negD) ==
    <<<<Precision4(VertexX(a, b)), " + ", Precision4(ImagPart(a, SqrtOf(negD))), "i">>,
      <<Precision4(VertexX(a, b)), " - ", Precision4(ImagPart(a, SqrtOf(negD))), "i">>>>

\* discriminant > 0 (712)
IsPositive_OrZero(d) == RGreater(d, RZero) \/ d = RZero
IsPositive(d) == RGreater(d, RZero)

RootsOf(a, b, d) ==
    IF IsPositive(d) THEN [roots |-> RealRoots(a, b, d[1]), type |-> "real"]
    ELSE IF d = RZero THEN [roots |-> SingleRoot(a, b), type |-> "single"]
    ELSE [roots |-> ComplexRoots(a, b, -d[1]), type |-> "complex"]

Solution(a, d, h, k, found) ==
    [roots |-> found.roots,
     type |-> found.type,
     discriminant |-> d,
     vertex |-> [x |-> h, y |-> k],
     axisOfSymmetry |-> h,
     vertexForm |-> VertexForm(a, h, k)]

Solved(a, b, c, d, h) == Solution(a, d, h, VertexY(a, b, c, h), RootsOf(a, b, d))

solveQuadratic(a, b, c) ==
    IF a = RZero THEN Thrown("NotQuadratic")
    ELSE Returned("quadratic", Solved(a, b, c, DiscriminantOf(a, b, c), VertexX(a, b)))

Coefficients == {RInt(v) : v \in (-MaxCoeff)..MaxCoeff}

SQInit ==
    /\ pc = "sq_call"
    /\ coeffs \in Coefficients \X Coefficients \X Coefficients
    /\ quadratic = NoValue
    /\ PrimeIdle /\ InverseIdle /\ EvaluateIdle /\ ParseIdle /\ AlgebraIdle /\ FactIdle /\ GridIdle /\ BasicIdle /\ CurrencyIdle

\* a === 0: the error (691-693)
SQReject ==
    /\ pc = "sq_call"
    /\ coeffs[1] = RZero
    /\ quadratic' = solveQuadratic(coeffs[1], coeffs[2], coeffs[3])
    /\ pc' = "sq_throw"
    /\ UNCHANGED coeffs
    /\ QuadraticFrame

\* the object returned (695-746)
SQSolve ==
    /\ pc = "sq_call"
    /\ coeffs[1] # RZero
    /\ quadratic' = solveQuadratic(coeffs[1], coeffs[2], coeffs[3])
    /\ pc' = "sq_done"
    /\ UNCHANGED coeffs
    /\ QuadraticFrame

QuadraticNext == SQReject \/ SQSolve

SpecQuadratic == SQInit /\ [][QuadraticNext]_vars

\* b^2 - 4ac, of the integers
IntDiscriminant == coeffs[2][1] * coeffs[2][1] - 4 * coeffs[1][1] * coeffs[3][1]

IsConjugatePair(roots) ==
    /\ roots[1][1] = roots[2][1]
    /\ roots[1][3] = roots[2][3]
    /\ roots[1][2] = " + " /\ roots[2][2] = " - "

Trichotomy(q, D) ==
    /\ q.discriminant = RInt(D)
    /\ q.type \in {"real", "single", "complex"}
    /\ q.type = "real" <=> D > 0
    /\ q.type = "single" <=> D = 0
    /\ q.type = "complex" <=> D < 0
    /\ Len(q.roots) = IF q.type = "single" THEN 1 ELSE 2
    /\ q.type = "complex" => IsConjugatePair(q.roots)
    /\ q.vertex.x = Rat(-coeffs[2][1], 2 * coeffs[1][1])
    /\ q.axisOfSymmetry = q.vertex.x

\* C20: for all coefficients with a # 0 the discriminant solveQuadratic returns
\* is b^2 - 4ac; the tag is real with exactly two roots iff it is positive,
\* single with exactly one root iff it is zero, complex with exactly two
\* conjugate roots iff it is negative; the vertex and the axis of symmetry are
\* there in the three cases; a = 0 throws and returns no result.
C20_RootNatureTrichotomy ==
    /\ (pc = "sq_throw") => (coeffs[1] = RZero /\ quadratic = Thrown("NotQuadratic"))
    /\ (pc = "sq_done")
       => /\ coeffs[1] # RZero
          /\ quadratic.k = "quadratic"
          /\ Trichotomy(quadratic.v, IntDiscriminant)
    /\ (pc \in {"sq_done", "sq_throw"} /\ coeffs[1] = RZero) => pc = "sq_throw"

C20_Witness ==
    /\ pc = "sq_done"
    /\ coeffs = <<RInt(1), RInt(2), RInt(1)>>
    /\ quadratic.v.type = "single"
    /\ quadratic.v.roots = <<Precision4(RInt(-1))>>
    /\ quadratic.v.discriminant = RZero

\* ------------------------------------------------------------------------
\* Implicit multiplication in parseFunction
\* ------------------------------------------------------------------------
\* the text each of the three inputs is to be rewritten to
TimesX(text) ==
    IF text = Chars("xsin(x)") THEN Chars("x*sin(x)")
    ELSE IF text = Chars("xx") THEN Chars("x*x")
    ELSE Chars("x*(x+1)")

\* C21: an x immediately followed by a letter or ( gets * inserted:
\* parseFunction("xsin(x)") succeeds and compiles x*sin(x), parseFunction("xx")
\* succeeds and compiles x*x, and parseFunction("x(x+1)") compiles x*(x+1).
C21_TimesAfterX ==
    funcStr \in {Chars("xsin(x)"), Chars("xx"), Chars("x(x+1)")}
    => /\ pc \notin {"pfn_throw_unknown", "pfn_throw_parse"}
       /\ pc = "pfn_constants" => processedStr = TimesX(funcStr)

MaxFact == 173
MinusFact == 3

\* A natural number of any size: its digits in base 10^4, the lowest first,
\* with no zero at the top
Limb == 10000
\* big * k for 1 <= k < Limb, without a loop over the digits: digit j of the
\* product is the low part of big[j] * k plus the high part of big[j-1] * k,
\* and a carry of 1 comes in when a digit below overflowed and every digit in
\* between is Limb - 1
PartialSum(big, k, j) ==
    (IF j <= Len(big) THEN (big[j] * k) % Limb ELSE 0)
        + (IF j > 1 THEN (big[j - 1] * k) \div Limb ELSE 0)
CarryInto(big, k, j) ==
    IF \E q \in 1..(j - 1) :
          /\ PartialSum(big, k, q) >= Limb
          /\ \A r \in (q + 1)..(j - 1) : PartialSum(big, k, r) = Limb - 1
    THEN 1 ELSE 0
DigitOf(big, k, j) == (PartialSum(big, k, j) + CarryInto(big, k, j)) % Limb
BigTimes(big, k) ==
    SubSeq([j \in 1..(Len(big) + 1) |-> DigitOf(big, k, j)], 1,
           IF DigitOf(big, k, Len(big) + 1) = 0 THEN Len(big) ELSE Len(big) + 1)

\* acc times lo, lo + 1, ..., hi (c = 0), or times c for each of them; the
\* product is taken sixteen factors at a time
RECURSIVE TimesRun(_, _, _, _)
TimesRun(acc, c, lo, hi) ==
    IF Len(acc) = 0 \/ lo > hi THEN acc
    ELSE TimesRun(BigTimes(acc, IF c = 0 THEN lo ELSE c), c, lo + 1, hi)
RECURSIVE TimesBlocks(_, _, _, _)
TimesBlocks(acc, c, lo, hi) ==
    IF Len(acc) = 0 \/ lo > hi THEN acc
    ELSE TimesBlocks(TimesRun(acc, c, lo, IF lo + 15 < hi THEN lo + 15 ELSE hi),
                     c, lo + 16, hi)

RECURSIVE LessFrom(_, _, _)
LessFrom(a, b, at) ==
    IF at = 0 THEN FALSE
    ELSE IF a[at] # b[at] THEN a[at] < b[at]
    ELSE LessFrom(a, b, at - 1)
BigLess(a, b) == IF Len(a) # Len(b) THEN Len(a) < Len(b) ELSE LessFrom(a, b, Len(a))

\* 2^1024 = 1024^102 * 16: a product that reaches it is Infinity in a double
TwoTo1024 == BigTimes(TimesBlocks(<<1>>, 1024, 1, 102), 16)

\* a number that is an integer of any size, or Infinity
Whole(big) == [k |-> "integer", v |-> big]
\* result *= i in double arithmetic: the rounding of the mantissa is left out
DoubleTimes(big, k) ==
    IF big.k = "inf" THEN big
    ELSE IF BigLess(BigTimes(big.v, k), TwoTo1024) THEN Whole(BigTimes(big.v, k))
    ELSE JsInf

\* n < 0 || !Number.isInteger(n)
FactInvalid(a) == a.k # "num" \/ a.v[1] < 0 \/ a.v[2] # 1
\* n > 170
FactSaturates_Early(a) == a.v[1] > 169
FactSaturates(a) == a.v[1] > 170

FactInputs ==
    {JsNum(Rat(k, 2)) : k \in (-2 * MinusFact)..(2 * MaxFact)} \cup {JsNaN, JsInf, JsNegInf}

FactInit ==
    /\ pc = "fact_call"
    /\ factArg \in FactInputs
    /\ factI = 0 /\ product = NoValue /\ factorialOf = NoValue
    /\ InverseIdle /\ PrimeIdle /\ EvaluateIdle /\ ParseIdle /\ AlgebraIdle /\ QuadraticIdle /\ GridIdle /\ BasicIdle /\ CurrencyIdle

\* the three early returns (751-753), or let result = 1 and i = n
FactEnter ==
    /\ pc = "fact_call"
    /\ IF FactInvalid(factArg)
         THEN factorialOf' = JsNaN /\ pc' = "fact_done" /\ UNCHANGED <<factI, product>>
         ELSE IF FactSaturates(factArg)
         THEN factorialOf' = JsInf /\ pc' = "fact_done" /\ UNCHANGED <<factI, product>>
         ELSE IF factArg.v[1] \in {0, 1}
         THEN factorialOf' = Whole(<<1>>) /\ pc' = "fact_done" /\ UNCHANGED <<factI, product>>
         ELSE /\ product' = Whole(<<1>>)
              /\ factI' = factArg.v[1]
              /\ pc' = "fact_loop"
              /\ UNCHANGED factorialOf
    /\ UNCHANGED factArg
    /\ FactFrame

\* for (let i = n; i > 1; i--) result *= i
FactStep ==
    /\ pc = "fact_loop"
    /\ factI > 1
    /\ product' = DoubleTimes(product, factI)
    /\ factI' = factI - 1
    /\ UNCHANGED <<pc, factArg, factorialOf>>
    /\ FactFrame

\* return result
FactReturn ==
    /\ pc = "fact_loop"
    /\ ~(factI > 1)
    /\ factorialOf' = product
    /\ pc' = "fact_done"
    /\ UNCHANGED <<factArg, factI, product>>
    /\ FactFrame

FactNext == FactEnter \/ FactStep \/ FactReturn

SpecFactorial == FactInit /\ [][FactNext]_vars

\* n! as the product 1 * 2 * ... * n
Ascending(k) == TimesBlocks(<<1>>, 0, 2, k)

\* the value of the function table agrees in kind with the value of the loop
SameKindAsTable(a, value) ==
    IF value.k = "integer" THEN JsIsFinite(factorial(a)) ELSE factorial(a).k = value.k

\* C23: factorial of an integer n, 0 <= n <= 170, is n! (1 for 0 and 1); of a
\* negative or a non-integer number it is NaN; of an integer above 170 it is
\* +Infinity; the product of the loop never leaves the range of the numbers.
C23_FactorialByRange ==
    /\ (pc = "fact_loop") => product.k = "integer"
    /\ (pc = "fact_done")
       => /\ IF factArg.k # "num" \/ factArg.v[2] # 1 \/ factArg.v[1] < 0
               THEN factorialOf = JsNaN
               ELSE IF factArg.v[1] > 170 THEN factorialOf = JsInf
               ELSE factorialOf = Whole(Ascending(factArg.v[1]))
          /\ SameKindAsTable(factArg, factorialOf)
          /\ factArg \in {JsInt(0), JsInt(1)} => factorialOf = Whole(<<1>>)
          /\ factArg = JsInt(20) => factorialOf = Whole(<<0, 7664, 81, 2902, 243>>)

C23_Witness ==
    /\ pc = "fact_done"
    /\ factArg = JsInt(170)
    /\ factorialOf.k = "integer"
    /\ Len(factorialOf.v) = 77
    /\ factorialOf.v[77] = 725
    /\ BigLess(factorialOf.v, TwoTo1024)
    /\ ~BigLess(BigTimes(factorialOf.v, 171), TwoTo1024)

\* ------------------------------------------------------------------------
\* MatrixCalculator (src/components/modules/MatrixCalculator.tsx)
\* ------------------------------------------------------------------------
\* cell edits, and presses of the buttons of the operations and of the
\* clearing, of one run of the component
MaxCellEdits == 1
MaxOps == 2

\* String(k) of an integer, -9 <= k <= 9
NatText(k) == <<"0", "1", "2", "3", "4", "5", "6", "7", "8", "9">>[k + 1]
IntText(k) == IF k < 0 THEN "-" \o NatText(-k) ELSE NatText(k)

\* /^\d*$/
IsDigits(text) == \A k \in 1..Len(text) : IsDigit(Chars(text)[k])
\* parseInt(text, 10) of a text of digits (the empty text has no value: NaN)
DimValue(text) == DigitsValue(Chars(text), 1, Len(text) + 1, 10)
\* parseInt(text, 10) || d
ParsedOr(text, d) == IF text = "" \/ DimValue(text) = 0 THEN d ELSE DimValue(text)

createStringMatrix(rows, cols) == [r \in 1..rows |-> [c \in 1..cols |-> "0"]]

Fields == {"rowsA", "colsA", "rowsB", "colsB"}
DimOf(field) ==
    CASE field = "rowsA" -> rowsAStr
      [] field = "colsA" -> colsAStr
      [] field = "rowsB" -> rowsBStr
      [] field = "colsB" -> colsBStr

\* the setters of the four texts, and the two effects that follow a change of
\* a text (131-142): the grid is made anew, every cell '0'
SetDims(ra, ca, rb, cb) ==
    /\ rowsAStr' = ra /\ colsAStr' = ca /\ rowsBStr' = rb /\ colsBStr' = cb
    /\ IF <<ra, ca>> # <<rowsAStr, colsAStr>>
         THEN /\ matrixA' = createStringMatrix(ParsedOr(ra, 1), ParsedOr(ca, 1))
              /\ vectorB' = [k \in 1..ParsedOr(ra, 1) |-> "0"]
         ELSE UNCHANGED <<matrixA, vectorB>>
    /\ IF <<rb, cb>> # <<rowsBStr, colsBStr>>
         THEN matrixB' = createStringMatrix(ParsedOr(rb, 1), ParsedOr(cb, 1))
         ELSE UNCHANGED matrixB
SetDim(field, text) ==
    SetDims(IF field = "rowsA" THEN text ELSE rowsAStr,
            IF field = "colsA" THEN text ELSE colsAStr,
            IF field = "rowsB" THEN text ELSE rowsBStr,
            IF field = "colsB" THEN text ELSE colsBStr)

\* the texts typed or pasted into a Rows or Cols field
TypedDims == {"", "0", "9", "03", "1a"}

\* handleDimBlur's clamp (150-159)
Clamped(text) ==
    IF text = "" \/ DimValue(text) < 1 THEN "1"
    ELSE IF DimValue(text) > 8 THEN "8"
    ELSE NatText(DimValue(text))
\* handleDimStep's clamp (161-167)
DimStepped(text, step) ==
    IF ParsedOr(text, 1) + step < 1 THEN "1"
    ELSE IF ParsedOr(text, 1) + step > 8 THEN "8"
    ELSE NatText(ParsedOr(text, 1) + step)

GridRest == UNCHANGED <<pc, results, error, history, cellEdits, opsDone>>

handleDimChange(field, value) ==
    /\ pc = "dims"
    /\ IF value = "" \/ IsDigits(value)
         THEN SetDim(field, value)
         ELSE UNCHANGED <<rowsAStr, colsAStr, rowsBStr, colsBStr, matrixA, matrixB, vectorB>>
    /\ GridRest /\ GridFrame

\* the value handed over is the text of the field (e.target.value)
handleDimBlur(field) ==
    /\ pc = "dims"
    /\ SetDim(field, Clamped(DimOf(field)))
    /\ GridRest /\ GridFrame

\* the stepper buttons and the arrow keys (handleDimKeyDown)
handleDimStep(field, step) ==
    /\ pc = "dims"
    /\ SetDim(field, DimStepped(DimOf(field), step))
    /\ GridRest /\ GridFrame

NoResults ==
    [key \in {"basic", "advancedA", "advancedB", "minorCofactor", "solve"} |-> NoValue]

\* the component as it is mounted (91-112), with no history saved
DimsInit ==
    /\ pc = "dims"
    /\ rowsAStr = "2" /\ colsAStr = "2" /\ rowsBStr = "2" /\ colsBStr = "2"
    /\ matrixA = createStringMatrix(2, 2)
    /\ matrixB = createStringMatrix(2, 2)
    /\ vectorB = <<"0", "0">>
    /\ results = NoResults
    /\ error = JsNull
    /\ history = <<>>
    /\ cellEdits = 0 /\ opsDone = 0
    /\ InverseIdle /\ PrimeIdle /\ EvaluateIdle /\ ParseIdle /\ AlgebraIdle /\ QuadraticIdle /\ FactIdle /\ BasicIdle /\ CurrencyIdle

DimsNext ==
    \/ \E field \in Fields, value \in TypedDims : handleDimChange(field, value)
    \/ \E field \in Fields : handleDimBlur(field)
    \/ \E field \in Fields, step \in {1, -1} : handleDimStep(field, step)

SpecDims == DimsInit /\ [][DimsNext]_vars

IsGrid(grid) ==
    /\ Len(grid) \in 1..8
    /\ \A r \in 1..Len(grid) : Len(grid[r]) \in 1..8

\* C25: after any sequence of edits of the Rows and Cols fields, the grids of
\* matrix A and matrix B have between 1 and 8 rows and between 1 and 8
\* columns, and vector B has as many cells as matrix A has rows.
C25_OrderWithinEight ==
    pc = "dims" => /\ IsGrid(matrixA)
                   /\ IsGrid(matrixB)
                   /\ Len(vectorB) = Len(matrixA)

\* ------------------------------------------------------------------------
\* MatrixCalculator: the cells, the operations, the results and the history
\* ------------------------------------------------------------------------
\* /^-?\d*\.?\d*$/
CellPattern(s) ==
    LET p == IF s # <<>> /\ s[1] = "-" THEN 2 ELSE 1 IN
    \/ DigitsEnd(s, p) = Len(s) + 1
    \/ /\ DigitsEnd(s, p) <= Len(s)
       /\ s[DigitsEnd(s, p)] = "."
       /\ DigitsEnd(s, DigitsEnd(s, p) + 1) = Len(s) + 1
\* v === '' || v === '-' || the pattern
IsCellText(v) == CellPattern(Chars(v))

\* parseFloat(cell) || 0, for a cell text without digits after the point
SignedDigits(s, p) ==
    IF DigitsEnd(s, p) = p THEN 0
    ELSE (IF p = 2 THEN -1 ELSE 1) * DigitsValue(s, p, DigitsEnd(s, p), 10)
CellNumber(text) ==
    SignedDigits(Chars(text), IF text # "" /\ Chars(text)[1] = "-" THEN 2 ELSE 1)

matrixToNumbers(grid) ==
    [r \in 1..Len(grid) |-> [c \in 1..Len(grid[r]) |-> RInt(CellNumber(grid[r][c]))]]
vectorToNumbers(cells) == [k \in 1..Len(cells) |-> RInt(CellNumber(cells[k]))]

\* the texts typed into a cell
TypedCells == {"", "-", "1.", "x"}

GridOf(which) == IF which = "A" THEN matrixA ELSE matrixB
\* setMatrixA or setMatrixB with the cell (r, c) replaced
SetCell(which, r, c, text) ==
    /\ matrixA' = IF which = "A" THEN [matrixA EXCEPT ![r][c] = text] ELSE matrixA
    /\ matrixB' = IF which = "B" THEN [matrixB EXCEPT ![r][c] = text] ELSE matrixB
    /\ UNCHANGED <<rowsAStr, colsAStr, rowsBStr, colsBStr, vectorB>>
SetVectorCell(index, text) ==
    /\ vectorB' = [vectorB EXCEPT ![index] = text]
    /\ UNCHANGED <<rowsAStr, colsAStr, rowsBStr, colsBStr, matrixA, matrixB>>
CellsOf(grid) ==
    IF grid = <<>> THEN {} ELSE {<<r, c>> : r \in 1..Len(grid), c \in 1..Len(grid[1])}
Edited == cellEdits' = cellEdits + 1 /\ UNCHANGED <<pc, results, error, history, opsDone>>
Blank(text) == IF text \in {"", "-"} THEN "0" ELSE text

updateMatrix(which, r, c, v) ==
    /\ pc = "grid" /\ cellEdits < MaxCellEdits
    /\ IF IsCellText(v)
         THEN SetCell(which, r, c, v)
         ELSE UNCHANGED <<rowsAStr, colsAStr, rowsBStr, colsBStr, matrixA, matrixB, vectorB>>
    /\ Edited /\ GridFrame

handleBlur(which, r, c) ==
    /\ pc = "grid"
    /\ SetCell(which, r, c, Blank(GridOf(which)[r][c]))
    /\ GridRest /\ GridFrame

handleMatrixValueStep(which, r, c, step) ==
    /\ pc = "grid" /\ cellEdits < MaxCellEdits
    /\ CellNumber(GridOf(which)[r][c]) + step \in (-MaxCell)..MaxCell
    /\ SetCell(which, r, c, IntText(CellNumber(GridOf(which)[r][c]) + step))
    /\ Edited /\ GridFrame

updateVectorB(index, value) ==
    /\ pc = "grid" /\ cellEdits < MaxCellEdits
    /\ IF IsCellText(value)
         THEN SetVectorCell(index, value)
         ELSE UNCHANGED <<rowsAStr, colsAStr, rowsBStr, colsBStr, matrixA, matrixB, vectorB>>
    /\ Edited /\ GridFrame

handleVectorBlur(index) ==
    /\ pc = "grid"
    /\ SetVectorCell(index, Blank(vectorB[index]))
    /\ GridRest /\ GridFrame

handleVectorValueStep(index, step) ==
    /\ pc = "grid" /\ cellEdits < MaxCellEdits
    /\ CellNumber(vectorB[index]) + step \in (-MaxCell)..MaxCell
    /\ SetVectorCell(index, IntText(CellNumber(vectorB[index]) + step))
    /\ Edited /\ GridFrame

\* the operation buttons (462-547): the function, the title (its signs of
\* multiplication and of the inverse in ASCII), the section of the result and
\* the arguments
Button(op, title, key, first, second) ==
    [op |-> op, title |-> title, key |-> key, first |-> first, second |-> second]
Buttons ==
    {Button("matrixAdd", "Result: A + B", "basic", "A", "B"),
     Button("matrixSubtract", "Result: A - B", "basic", "A", "B"),
     Button("matrixMultiply", "Result: A x B", "basic", "A", "B"),
     Button("matrixDivide", "Result: A x B^-1", "basic", "A", "B"),
     Button("transpose", "Transpose of A", "basic", "A", "none"),
     Button("transpose", "Transpose of B", "basic", "B", "none"),
     Button("determinant", "Determinant of A", "advancedA", "A", "none"),
     Button("matrixInverse", "Inverse of A", "advancedA", "A", "none"),
     Button("adjoint", "Adjoint of A", "advancedA", "A", "none"),
     Button("eigen2x2", "Eigenvalues/Vectors of A", "advancedA", "A", "none"),
     Button("determinant", "Determinant of B", "advancedB", "B", "none"),
     Button("matrixInverse", "Inverse of B", "advancedB", "B", "none"),
     Button("adjoint", "Adjoint of B", "advancedB", "B", "none"),
     Button("eigen2x2", "Eigenvalues/Vectors of B", "advancedB", "B", "none"),
     Button("minorMatrix", "Minor Matrix of A", "minorCofactor", "A", "none"),
     Button("cofactorMatrix", "Cofactor Matrix of A", "minorCofactor", "A", "none"),
     Button("minorMatrix", "Minor Matrix of B", "minorCofactor", "B", "none"),
     Button("cofactorMatrix", "Cofactor Matrix of B", "minorCofactor", "B", "none"),
     Button("solveLinearSystem", "Solution vector x", "solve", "A", "vector")}

\* showMinorCofactorA, showMinorCofactorB (127-128): the other buttons are
\* always rendered
Rendered(b) ==
    b.key = "minorCofactor"
    => IF b.first = "A"
         THEN ParsedOr(rowsAStr, 0) > 1 /\ ParsedOr(rowsAStr, 0) = ParsedOr(colsAStr, 0)
         ELSE ParsedOr(rowsBStr, 0) > 1 /\ ParsedOr(rowsBStr, 0) = ParsedOr(colsBStr, 0)

\* convertedArgs (261-268)
Converted(name) ==
    CASE name = "A" -> matrixToNumbers(matrixA)
      [] name = "B" -> matrixToNumbers(matrixB)
      [] name = "vector" -> vectorToNumbers(vectorB)
      [] name = "none" -> <<>>

\* op(...convertedArgs): the value returned or the error thrown
CoreCall(op, a, b) ==
    CASE op = "matrixAdd" -> matrixAdd(a, b)
      [] op = "matrixSubtract" -> matrixSubtract(a, b)
      [] op = "matrixMultiply" -> Multiplied(a, b)
      [] op = "matrixDivide" -> matrixDivide(a, b)
      [] op = "transpose" -> Returned("matrix", transpose(a))
      [] op = "determinant" -> determinantOf(a)
      [] op = "matrixInverse" -> matrixInverse(a)
      [] op = "adjoint" -> adjoint(a)
      [] op = "eigen2x2" -> eigen2x2(a)
      [] op = "minorMatrix" -> minorMatrix(a)
      [] op = "cofactorMatrix" -> cofactorMatrix(a)
      [] op = "solveLinearSystem" ->
            IF SolveGuard(a, b) THEN OrderMismatch ELSE SolveWith(matrixInverse(a), b)
OutcomeOf(b) == CoreCall(b.op, Converted(b.first), Converted(b.second))

\* e.message: the text up to the colon for the errors of a wrong order
MessageOf(o) ==
    JsVal("string",
          CASE o = OrderMismatch -> "Wrong Order"
            [] o = Singular -> "Matrix is singular and cannot be inverted (determinant is zero)."
            [] o = TypeError -> "TypeError")

Entry(title, o) == [title |-> title, result |-> o]
\* [{ title, result: newResult }, ...prev.slice(0, 19)]
Kept_All(prev) == prev
Kept(prev) == SubSeq(prev, 1, IF Len(prev) < 19 THEN Len(prev) ELSE 19)

\* try { setError(null); ...; setResults(...); setHistory(...) }
\* catch (e) { setError(e.message) }
Settle_KeepError(b, o) ==
    IF IsThrown(o)
      THEN error' = MessageOf(o) /\ UNCHANGED <<results, history>>
      ELSE /\ UNCHANGED error
           /\ results' = [results EXCEPT ![b.key] = Entry(b.title, o)]
           /\ history' = <<Entry(b.title, o)>> \o Kept(history)
Settle(b, o) ==
    IF IsThrown(o)
      THEN error' = MessageOf(o) /\ UNCHANGED <<results, history>>
      ELSE /\ error' = JsNull
           /\ results' = [results EXCEPT ![b.key] = Entry(b.title, o)]
           /\ history' = <<Entry(b.title, o)>> \o Kept(history)

performOperation(b) ==
    /\ pc = "grid" /\ opsDone < MaxOps
    /\ Rendered(b)
    /\ Settle(b, OutcomeOf(b))
    /\ opsDone' = opsDone + 1
    /\ UNCHANGED <<pc, rowsAStr, colsAStr, rowsBStr, colsBStr, matrixA, matrixB, vectorB,
                   cellEdits>>
    /\ GridFrame

\* the button of a result box, rendered when the section holds a result
clearResult(key) ==
    /\ pc = "grid" /\ opsDone < MaxOps
    /\ results[key] \notin {NoValue, JsNull}
    /\ results' = [results EXCEPT ![key] = JsNull]
    /\ opsDone' = opsDone + 1
    /\ UNCHANGED <<pc, rowsAStr, colsAStr, rowsBStr, colsBStr, matrixA, matrixB, vectorB,
                   error, history, cellEdits>>
    /\ GridFrame

\* the button Clear history (562), rendered when the history is not empty
clearMatrixHistory ==
    /\ pc = "grid" /\ opsDone < MaxOps
    /\ history # <<>>
    /\ history' = <<>>
    /\ opsDone' = opsDone + 1
    /\ UNCHANGED <<pc, rowsAStr, colsAStr, rowsBStr, colsBStr, matrixA, matrixB, vectorB,
                   results, error, cellEdits>>
    /\ GridFrame

\* the histories the component finds saved when it is mounted: k determinants,
\* the newest first
SavedEntry(k) == Entry("Determinant of A", Returned("number", RInt(k)))
SavedHistory(len) == [k \in 1..len |-> SavedEntry(len + 1 - k)]
SavedLengths == {0, 20}

\* the component with its orders chosen, every cell '0'
GridInit ==
    /\ pc = "grid"
    /\ rowsAStr \in {"1", "2"} /\ colsAStr = "2"
    /\ rowsBStr = "2" /\ colsBStr = "2"
    /\ matrixA = createStringMatrix(ParsedOr(rowsAStr, 1), ParsedOr(colsAStr, 1))
    /\ matrixB = createStringMatrix(2, 2)
    /\ vectorB = [k \in 1..ParsedOr(rowsAStr, 1) |-> "0"]
    /\ results = NoResults
    /\ error = JsNull
    /\ history \in {SavedHistory(len) : len \in SavedLengths}
    /\ cellEdits = 0 /\ opsDone = 0
    /\ InverseIdle /\ PrimeIdle /\ EvaluateIdle /\ ParseIdle /\ AlgebraIdle /\ QuadraticIdle /\ FactIdle /\ BasicIdle /\ CurrencyIdle

GridNext ==
    \/ \E which \in {"A", "B"} : \E cell \in CellsOf(GridOf(which)) : \E v \in TypedCells :
          updateMatrix(which, cell[1], cell[2], v)
    \/ \E which \in {"A", "B"} : \E cell \in CellsOf(GridOf(which)) :
          handleBlur(which, cell[1], cell[2])
    \/ \E which \in {"A", "B"} : \E cell \in CellsOf(GridOf(which)) : \E step \in {1, -1} :
          handleMatrixValueStep(which, cell[1], cell[2], step)
    \/ \E index \in 1..Len(vectorB) : \E value \in TypedCells : updateVectorB(index, value)
    \/ \E index \in 1..Len(vectorB) : handleVectorBlur(index)
    \/ \E index \in 1..Len(vectorB) : \E step \in {1, -1} : handleVectorValueStep(index, step)
    \/ \E b \in Buttons : performOperation(b)
    \/ \E key \in DOMAIN results : clearResult(key)
    \/ clearMatrixHistory

\* the step of a press of clearResult or of Clear history
IsClearing ==
    /\ error' = error
    /\ \/ history # <<>> /\ history' = <<>> /\ results' = results
       \/ /\ history' = history
          /\ \E key \in DOMAIN results : results' = [results EXCEPT ![key] = JsNull]
\* the step of a press of the button b, told by what the core operation does
\* with the grids as they are
IsPressOf(b, o) ==
    IF IsThrown(o)
      THEN /\ error' = MessageOf(o)
           /\ results' = results
           /\ history' = history
      ELSE /\ error' = JsNull
           /\ results' = [results EXCEPT ![b.key] = Entry(b.title, o)]
           /\ history' = <<Entry(b.title, o)>> \o SubSeq(history, 1, Len(history') - 1)

\* C24: an operation that throws leaves the message of the error displayed
\* and changes no result panel and no entry of the history; an operation that
\* succeeds clears the displayed error and puts its result at the front of
\* the history.
C24_ErrorAbortsOperation ==
    [][(pc = "grid" /\ opsDone' = opsDone + 1 /\ ~IsClearing)
        => /\ \E b \in Buttons : Rendered(b) /\ IsPressOf(b, OutcomeOf(b))
           /\ error'.k = "string" => results' = results /\ history' = history
           /\ error'.k # "string"
                => /\ error' = JsNull
                   /\ Len(history') \in {Len(history) + 1, 20}
                   /\ \E key \in DOMAIN results : results'[key] = history'[1]
      ]_vars

\* an operation has succeeded, and the next one, the inverse of a singular
\* matrix, has thrown and has left the result and the history alone
C24_Witness ==
    /\ pc = "grid"
    /\ opsDone = 2
    /\ error = MessageOf(Singular)
    /\ Len(history) = 1
    /\ history[1].result.k = "matrix"
    /\ results["basic"] = history[1]

\* ------------------------------------------------------------------------
\* parseFunction: the text the four passes leave (831-840)
\* ------------------------------------------------------------------------
\* the character at k is one of the first and the next one is one of the second
Adjacent(s, k, IsFirst(_), IsSecond(_)) == IsFirst(s[k]) /\ IsSecond(s[k + 1])
IsOpen(c) == c = "("
IsClose(c) == c = ")"
IsX(c) == c = "x"
IsStar(c) == c = "*"
LetterOrOpen(c) == IsLower(c) \/ IsOpen(c)
AfterClose(c) == IsLower(c) \/ IsDigit(c) \/ IsOpen(c)
AfterX(c) == IsDigit(c) \/ IsLower(c) \/ IsOpen(c)
HasTwoStars(s) == \E k \in 1..(Len(s) - 1) : Adjacent(s, k, IsStar, IsStar)

\* C26: in the text the four passes leave, no digit is followed by a letter
\* or '(', no ')' by a letter, a digit or '(', no x by a digit, a letter or
\* '(', and no two '*' are adjacent unless the input had them adjacent.
C26_NoMissedNoDouble ==
    pc = "pfn_constants"
    => /\ \A k \in 1..(Len(processedStr) - 1) :
             /\ ~Adjacent(processedStr, k, IsDigit, LetterOrOpen)
             /\ ~Adjacent(processedStr, k, IsClose, AfterClose)
             /\ ~Adjacent(processedStr, k, IsX, AfterX)
       /\ HasTwoStars(processedStr) => HasTwoStars(Normalize(funcStr))

\* ------------------------------------------------------------------------
\* safeEvaluate: the refusal and the characters of the allow-list
\* ------------------------------------------------------------------------
HasForeignChar(s) == \E k \in 1..Len(s) : ~SafeChar(s[k])
Refused == pc = "se_done" /\ ~evaluated

\* C27: safeEvaluate refuses an input at its check if and only if the input
\* holds a character outside the allow-list; an input of allow-listed
\* characters with spaces before or after it (2+2 followed by a space, a space
\* followed by 2+2) is evaluated to the value of its trimmed form.
C27_RefusalExact ==
    /\ pc \in {"se_eval", "se_done", "se_throw"}
         => (Refused <=> HasForeignChar(expression))
    /\ (pc = "se_done" /\ ~HasForeignChar(expression))
         => /\ evaluated
            /\ result = CatchNull(NewFunction(trim(expression), NoParameters))

\* ------------------------------------------------------------------------
\* BasicCalculator (src/unnamed/part_001 1-290).  The display and the
\* history entries are texts, kept as sequences of characters.  An event
\* is a click on a button or a key of the keyboard; both end in the same
\* handlers, and a handler with its state updates is one step.
\* ------------------------------------------------------------------------
\* the number of events of a run
MaxPresses == 5

ErrorText == Chars("Error")
ZeroText == <<"0">>
\* what toPrecision(12) keeps: twelve significant digits
SignificantDigits == 12
\* the history keeps h.slice(0, 4) behind the new entry
OlderKept == 4

\* prev.slice(0, -k)
DropLast(s, k) == IF Len(s) <= k THEN <<>> ELSE SubSeq(s, 1, Len(s) - k)
\* /[0-9)πe]/.test(prev.slice(-1))
EndsValue(s) == s # <<>> /\ (IsDigit(s[Len(s)]) \/ s[Len(s)] \in {")", "π", "e"})
\* ['+', '-', '*', '/', '^'].includes(lastChar)
EndsOperator(s) == s # <<>> /\ s[Len(s)] \in {"+", "-", "*", "/", "^"}

\* the decimal digits of a natural number
RECURSIVE NatDigits(_)
NatDigits(k) == IF k < 10 THEN <<k>> ELSE Append(NatDigits(k \div 10), k % 10)
\* the first cnt digits behind the point of rem / q, for rem < q
RECURSIVE FracDigits(_, _, _)
FracDigits(rem, q, cnt) ==
    IF cnt = 0 THEN <<>>
    ELSE <<(10 * rem) \div q>> \o FracDigits((10 * rem) % q, q, cnt - 1)
\* the zeros between the point and the first other digit of rem / q, 0 < rem < q
RECURSIVE LeadingZeros(_, _)
LeadingZeros(rem, q) == IF 10 * rem >= q THEN 0 ELSE 1 + LeadingZeros(10 * rem, q)
\* a digit sequence plus one in its last place
RECURSIVE PlusOne(_)
PlusOne(ds) ==
    IF ds = <<>> THEN <<1>>
    ELSE IF ds[Len(ds)] = 9 THEN Append(PlusOne(DropLast(ds, 1)), 0)
    ELSE Append(DropLast(ds, 1), ds[Len(ds)] + 1)
RECURSIVE DropZeros(_)
DropZeros(ds) == IF ds # <<>> /\ ds[Len(ds)] = 0 THEN DropZeros(DropLast(ds, 1)) ELSE ds
DigitText(ds) == [k \in 1..Len(ds) |-> <<"0", "1", "2", "3", "4", "5", "6", "7", "8", "9">>[ds[k] + 1]]

\* String(parseFloat((a / q).toPrecision(12))) for a >= 0, q > 0: the value
\* rounded to twelve significant digits, without the zeros at its end.  (A
\* value under 10^-6 or from 10^21 on prints with an exponent; calculate
\* leaves those out.)
FixedText(a, q) ==
    IF a = 0 THEN ZeroText
    ELSE LET whole == NatDigits(a \div q)
             keep == IF a >= q THEN SignificantDigits - Len(whole)
                     ELSE SignificantDigits + LeadingZeros(a, q)
             more == FracDigits(a % q, q, keep + 1)
             cut == whole \o SubSeq(more, 1, keep)
             rounded == IF more[keep + 1] >= 5 THEN PlusOne(cut) ELSE cut
             frac == DropZeros(SubSeq(rounded, Len(rounded) - keep + 1, Len(rounded)))
         IN DigitText(DropLast(rounded, keep))
                \o (IF frac = <<>> THEN <<>> ELSE <<".">> \o DigitText(frac))

\* String(formattedResult) of a result that is a number
NumberText(value) ==
    IF value.k = "inf" THEN Chars("Infinity")
    ELSE IF value.k = "ninf" THEN Chars("-Infinity")
    ELSE IF value.k # "num" THEN Chars("NaN")
    ELSE (IF value.v[1] < 0 THEN <<"-">> ELSE <<>>) \o FixedText(Abs(value.v[1]), value.v[2])

\* safeEvaluate(expression) (src/constants.tsx 437-452) as one call
safeEvaluate(e) ==
    IF SafeSanitize(e) # trim(e) THEN JsNull
    ELSE CatchNull(NewFunction(SafeSanitize(e), NoParameters))
\* evaluateScientific(expression, isDeg) (src/constants.tsx 455-487) as one call
evaluateScientific(e, deg) ==
    IF SciInvalid(SciSubstitute(e)) THEN JsNull
    ELSE CatchNull(NewFunction(SciSubstitute(e), SciScope(deg)))
\* evalFunction(prev, isDeg)
Evaluation(prev, scientific, deg) ==
    IF scientific THEN evaluateScientific(prev, deg) ELSE safeEvaluate(prev)

\* result === null || !isFinite(result): the throw of "Invalid calculation"
Invalid_NullOnly(value) == value.k = "null"
Invalid(value) == value.k = "null" \/ ~JsIsFinite(ToNumber(value))
\* the bound on calculate: the result has a text the model computes (it is
\* no irrational number and prints without exponent)
Printable(value) ==
    /\ value.k # "real"
    /\ value.k = "num" =>
          \/ value.v[1] = 0
          \/ /\ value.v[2] < 100000000
             /\ (value.v[2] + 999999) \div 1000000 <= Abs(value.v[1])

\* the value the updater of calculate returns and the history it leaves
\* behind (lines 77-92): <<display, history>>
Calculated(prev, h, scientific, deg) ==
    IF prev = ErrorText \/ trim(prev) = <<>> \/ trim(prev) = ZeroText THEN <<prev, h>>
    ELSE LET value == Evaluation(prev, scientific, deg) IN
         \* the throw of line 84, or the TypeError of toPrecision on a
         \* result that is no number: catch { return 'Error'; }
         IF Invalid(value) \/ ~IsNumber(value) THEN <<ErrorText, h>>
         ELSE <<NumberText(value),
                <<prev \o Chars(" = ") \o NumberText(value)>>
                    \o SubSeq(h, 1, IF Len(h) < OlderKept THEN Len(h) ELSE OlderKept)>>

\* the events that end in handleInput, handleOperator and handleFunction
InputKeys == {"0", "2", "(", "π"}
OperatorKeys == {"+", "/"}
FunctionKeys == {"sqrt"}
\* the scientific row is rendered in scientific mode only (line 196); the
\* digits, the parentheses and the operators also come from the keyboard
Offered(key) == key \in {"π", "e"} \cup FunctionKeys => isScientific

Pressed == pc = "basic" /\ presses < MaxPresses /\ presses' = presses + 1 /\ pc' = pc
ModesKept == UNCHANGED <<isScientific, angleDeg>>

\* handleInput (lines 38-51)
handleInput(value) ==
    /\ Pressed /\ Offered(value)
    /\ display' =
          IF display = ZeroText /\ value \notin {".", "π", "e"} THEN <<value>>
          ELSE IF display = ErrorText THEN <<value>>
          ELSE IF value \in {"π", "e"} /\ EndsValue(display)
              THEN display \o Chars(" * ") \o <<value>>
          ELSE display \o <<value>>
    /\ UNCHANGED calcHistory /\ ModesKept /\ BasicFrame

\* handleOperator (lines 53-63)
handleOperator(op) ==
    /\ Pressed
    /\ display' =
          IF display = ErrorText THEN ZeroText
          ELSE IF EndsOperator(trim(display))
              THEN trim(DropLast(trim(display), 1)) \o <<" ", op, " ">>
          ELSE trim(display) \o <<" ", op, " ">>
    /\ UNCHANGED calcHistory /\ ModesKept /\ BasicFrame

\* handleFunction (lines 65-74)
handleFunction(name) ==
    /\ Pressed /\ Offered(name)
    /\ display' =
          IF display = ZeroText \/ display = ErrorText THEN Chars(name) \o <<"(">>
          ELSE IF EndsValue(display) THEN display \o Chars(" * ") \o Chars(name) \o <<"(">>
          ELSE display \o Chars(name) \o <<"(">>
    /\ UNCHANGED calcHistory /\ ModesKept /\ BasicFrame

\* calculate (lines 76-93)
calculate ==
    /\ Pressed
    /\ \/ display = ErrorText \/ trim(display) = <<>> \/ trim(display) = ZeroText
       \/ Printable(Evaluation(display, isScientific, angleDeg))
    /\ display' = Calculated(display, calcHistory, isScientific, angleDeg)[1]
    /\ calcHistory' = Calculated(display, calcHistory, isScientific, angleDeg)[2]
    /\ ModesKept /\ BasicFrame

\* clear (line 95)
clear ==
    /\ Pressed
    /\ display' = ZeroText
    /\ UNCHANGED calcHistory /\ ModesKept /\ BasicFrame

\* toggleSign (lines 97-106)
toggleSign ==
    /\ Pressed
    /\ display' =
          IF display = ZeroText \/ display = ErrorText THEN display
          ELSE IF display # <<>> /\ Head(display) = "-" THEN Tail(display)
          ELSE <<"-">> \o display
    /\ UNCHANGED calcHistory /\ ModesKept /\ BasicFrame

\* handleBackspace (lines 108-115)
handleBackspace ==
    /\ Pressed
    /\ display' =
          IF display = ErrorText THEN ZeroText
          ELSE IF Len(display) = 1 THEN ZeroText
          ELSE IF display # <<>> /\ display[Len(display)] = " " THEN DropLast(display, 3)
          ELSE DropLast(display, 1)
    /\ UNCHANGED calcHistory /\ ModesKept /\ BasicFrame

\* handleClearHistory (lines 117-119); its button is rendered while the
\* history has entries
handleClearHistory ==
    /\ Pressed /\ calcHistory # <<>>
    /\ calcHistory' = <<>>
    /\ UNCHANGED display /\ ModesKept /\ BasicFrame

\* onClick={() => setIsScientific(!isScientific)} (line 184)
toggleScientific ==
    /\ Pressed
    /\ isScientific' = ~isScientific
    /\ UNCHANGED <<display, calcHistory, angleDeg>> /\ BasicFrame

\* the DEG/RAD button of the scientific row: setIsDeg(!isDeg) (line 203)
toggleDeg ==
    /\ Pressed /\ isScientific
    /\ angleDeg' = ~angleDeg
    /\ UNCHANGED <<display, calcHistory, isScientific>> /\ BasicFrame

\* an entry the history keeps, `${prev} = ${formattedResult}`: what the
\* digit d followed by `=` leaves
SavedLine(d) == DigitText(<<d>>) \o Chars(" = ") \o DigitText(<<d>>)
\* the histories found in localStorage at mount (lines 11-23): none, or the
\* five entries earlier sessions left, the newest first
SavedLines == {<<>>, [k \in 1..(OlderKept + 1) |-> SavedLine(10 - k)]}

BasicInit ==
    /\ pc = "basic"
    /\ display = ZeroText
    /\ calcHistory \in SavedLines
    /\ isScientific = FALSE /\ angleDeg = TRUE /\ presses = 0
    /\ InverseIdle /\ PrimeIdle /\ EvaluateIdle /\ ParseIdle /\ AlgebraIdle /\ QuadraticIdle /\ FactIdle /\ GridIdle /\ CurrencyIdle

BasicNext ==
    \/ \E value \in InputKeys : handleInput(value)
    \/ \E op \in OperatorKeys : handleOperator(op)
    \/ \E name \in FunctionKeys : handleFunction(name)
    \/ calculate
    \/ clear
    \/ toggleSign
    \/ handleBackspace
    \/ handleClearHistory
    \/ toggleScientific
    \/ toggleDeg

\* ------------------------------------------------------------------------
\* The calculators of the application.  App renders one module at a time
\* (src/App.tsx 12, 36-38), so a run is a run of the Matrix Calculator or a
\* run of the Basic Calculator.
\* ------------------------------------------------------------------------
CalcInit == GridInit \/ BasicInit
CalcNext == GridNext \/ BasicNext
SpecCalculators == CalcInit /\ [][CalcNext]_vars

\* `=` returns prev untouched on these displays (line 78)
Blocked(text) == text = ErrorText \/ trim(text) = <<>> \/ trim(text) = ZeroText
\* what the evaluation of the display yields
Yield == Evaluation(display, isScientific, angleDeg)

\* C28: `=` on a display whose evaluation yields null, NaN, an infinity or
\* a value that is no number sets the display to exactly Error and leaves
\* the history as it is; on a finite result the display becomes the text of
\* the result and the history gains exactly one entry, at its front; on the
\* display Error, a blank display or 0 neither the display nor the history
\* changes; and on the display Error an input or a function key replaces
\* the display, while an operator or DEL makes it 0.
C28_CalculatorValidity ==
    [][/\ calculate =>
            /\ Blocked(display) => display' = display /\ calcHistory' = calcHistory
            /\ (~Blocked(display) /\ ~JsIsFinite(Yield))
                  => display' = ErrorText /\ calcHistory' = calcHistory
            /\ (~Blocked(display) /\ JsIsFinite(Yield))
                  => /\ display' = NumberText(Yield)
                     /\ display' # ErrorText
                     /\ Len(calcHistory') \in {Len(calcHistory) + 1, OlderKept + 1}
                     /\ calcHistory'[1] = display \o Chars(" = ") \o display'
                     /\ Tail(calcHistory') = SubSeq(calcHistory, 1, Len(calcHistory') - 1)
       /\ (pc = "basic" /\ display = ErrorText) =>
            /\ \A value \in InputKeys : handleInput(value) => display' = <<value>>
            /\ \A name \in FunctionKeys : handleFunction(name) => display' = Chars(name) \o <<"(">>
            /\ \A op \in OperatorKeys : handleOperator(op) => display' = ZeroText
            /\ handleBackspace => display' = ZeroText
      ]_vars

\* a calculation with a finite result has entered the history, and a later
\* division by zero has left the display at Error and the history alone
C28_Witness ==
    /\ pc = "basic" /\ display = ErrorText
    /\ Len(calcHistory) = 1 /\ calcHistory[1] = Chars("2 = 2")

\* the entries of h that stay behind a new entry when at most cap are kept
Behind(h, cap) == SubSeq(h, 1, IF Len(h) < cap THEN Len(h) ELSE cap - 1)
\* a step of the Basic Calculator that changes its history
BasicHistoryStep ==
    \/ /\ calculate /\ ~Blocked(display) /\ JsIsFinite(Yield)
       /\ calcHistory' = <<display \o Chars(" = ") \o display'>> \o Behind(calcHistory, 5)
    \/ handleClearHistory
\* a step of the Matrix Calculator that changes its history
MatrixHistoryStep ==
    \/ /\ \E b \in Buttons : performOperation(b)
       /\ error' = JsNull
       /\ \E key \in DOMAIN results : results'[key] = history'[1]
       /\ Tail(history') = Behind(history, 20)
    \/ clearMatrixHistory

\* C29: the history of the Basic Calculator never holds more than 5
\* entries; a successful `=` puts its entry first and keeps the entries
\* before it in their order, the oldest leaving when there were 5; no step
\* but Clear History empties it or changes it otherwise.  The history of
\* the Matrix Calculator never holds more than 20 entries, and an operation
\* puts its entry first.
C29_HistoryBoundAndOrder ==
    /\ [](pc = "basic" => Len(calcHistory) <= 5)
    /\ [](pc = "grid" => Len(history) <= 20)
    /\ [][/\ (pc = "basic" /\ calculate /\ ~Blocked(display) /\ JsIsFinite(Yield))
                => calcHistory' # calcHistory
          /\ (pc = "basic" /\ calcHistory' # calcHistory) => BasicHistoryStep
          /\ (pc = "grid" /\ history' # history) => MatrixHistoryStep
         ]_vars

\* five saved entries, then `2 =`: the new entry is first and the oldest of
\* the five has left
C29_Witness ==
    /\ pc = "basic" /\ Len(calcHistory) = 5
    /\ calcHistory[1] = Chars("2 = 2")
    /\ calcHistory[2] = SavedLine(9) /\ calcHistory[5] = SavedLine(6)

\* ------------------------------------------------------------------------
\* CurrencyConverter (src/unnamed/part_001, from line 292).  fetchRates is an async
\* function: its statements up to `await fetch(...)` run in the event that
\* calls it, and the rest runs when the response arrives, in whatever order
\* the network answers the calls in flight.  An event is one step, together
\* with the effects its state updates trigger.
\* ------------------------------------------------------------------------
\* the number of calls of fetchRates in a run, the one at mount included
MaxFetches == 3

Currencies == {"USD", "INR", "EUR"}
\* data.rates of the response for a base: the rate of each currency, as
\* <<numerator, denominator>>
RateTable(base) ==
    IF base = "USD" THEN [USD |-> <<1, 1>>, INR |-> <<83, 1>>, EUR |-> <<9, 10>>]
    ELSE IF base = "INR" THEN [USD |-> <<3, 250>>, INR |-> <<1, 1>>, EUR |-> <<11, 1000>>]
    ELSE [USD |-> <<11, 10>>, INR |-> <<90, 1>>, EUR |-> <<1, 1>>]
\* the texts typed into Amount
TypedAmounts == {"1", "2", ""}
\* parseFloat(amount) of these texts; the empty text gives NaN
AmountValue(text) == IF text = "" THEN JsNaN ELSE JsInt(DimValue(text))

\* the digits of k, with zeros in front up to the width
PadDigits(k, width) ==
    [j \in 1..(width - Len(NatDigits(k))) |-> 0] \o NatDigits(k)
\* (p / q).toFixed(4) for p >= 0: the value rounded to four decimals
toFixed4(p, q) ==
    LET scaled == (2 * 10000 * p + q) \div (2 * q) IN
    Join(DigitText(NatDigits(scaled \div 10000))) \o "."
        \o Join(DigitText(PadDigits(scaled % 10000, 4)))

\* the stored rates of a response for a base
RatesOf(base) == JsVal("rates", base)
\* the messages of the errors fetchRates catches
ServiceDown == "The currency exchange service is currently down. Please try again later."
Offline == "Could not connect to the currency service. Check your internet connection."
\* how a call of fetchRates can end: with the rates, with a status from 500
\* on, or with the TypeError of a fetch that failed
Outcomes == {"ok", "down", "offline"}

\* the conversion effect (lines 363-383): the result for a state
Conversion(text, to, stored) ==
    IF stored = JsNull THEN JsNull
    ELSE IF AmountValue(text) = JsNaN \/ AmountValue(text).v[1] < 0 THEN JsVal("string", "")
    ELSE LET rate == RateTable(stored.v)[to] IN
         IF rate[1] # 0
           THEN JsVal("string", toFixed4(AmountValue(text).v[1] * rate[1], rate[2]))
           ELSE JsVal("string", "N/A")

\* disabled={loading && !rates}
Disabled == loading /\ rates = JsNull

\* fetchRates(base) up to its first await (lines 308-311), called by the
\* effect of lines 359-361 when fromCurrency has changed
Fetching(base) ==
    /\ loading' = TRUE
    /\ fetchError' = JsNull
    /\ requests' = Append(requests, base)
    /\ pending' = pending \cup {Len(requests) + 1}

\* onChange={(e) => setFromCurrency(e.target.value)} (line 405)
selectFrom(c) ==
    /\ pc = "currency" /\ ~Disabled
    /\ c # fromCurrency /\ Len(requests) < MaxFetches
    /\ fromCurrency' = c
    /\ Fetching(c)
    /\ UNCHANGED <<pc, amount, toCurrency, converted, rates, lastUpdated>>
    /\ CurrencyFrame

\* onChange={(e) => setToCurrency(e.target.value)} (line 431)
selectTo(c) ==
    /\ pc = "currency" /\ ~Disabled
    /\ c # toCurrency
    /\ toCurrency' = c
    /\ converted' = Conversion(amount, c, rates)
    /\ UNCHANGED <<pc, amount, fromCurrency, rates, loading, fetchError, lastUpdated,
                   requests, pending>>
    /\ CurrencyFrame

\* onChange={(e) => setAmount(e.target.value)} (line 401)
setAmount(text) ==
    /\ pc = "currency" /\ ~Disabled
    /\ text # amount
    /\ amount' = text
    /\ converted' = Conversion(text, toCurrency, rates)
    /\ UNCHANGED <<pc, fromCurrency, toCurrency, rates, loading, fetchError, lastUpdated,
                   requests, pending>>
    /\ CurrencyFrame

\* handleSwap (lines 385-388)
handleSwap ==
    /\ pc = "currency" /\ ~Disabled
    /\ fromCurrency # toCurrency /\ Len(requests) < MaxFetches
    /\ fromCurrency' = toCurrency
    /\ toCurrency' = fromCurrency
    /\ converted' = Conversion(amount, fromCurrency, rates)
    /\ Fetching(toCurrency)
    /\ UNCHANGED <<pc, amount, rates, lastUpdated>>
    /\ CurrencyFrame

\* the rest of fetchRates (lines 313-356) for the call id, when its response
\* or its failure arrives
Stored(id) == RatesOf(requests[id])
respond(id, outcome) ==
    /\ pc = "currency" /\ id \in pending
    /\ pending' = pending \ {id}
    /\ IF outcome = "ok"
         THEN /\ rates' = Stored(id)
              /\ lastUpdated' = JsVal("string", requests[id])
              /\ UNCHANGED fetchError
         ELSE /\ fetchError' = JsVal("string", IF outcome = "down" THEN ServiceDown ELSE Offline)
              /\ rates' = JsNull
              /\ UNCHANGED lastUpdated
    /\ loading' = FALSE
    /\ converted' = Conversion(amount, toCurrency, rates')
    /\ UNCHANGED <<pc, amount, fromCurrency, toCurrency, requests>>
    /\ CurrencyFrame

\* the component after its first render and its effects: fetchRates('USD')
\* is in flight
CurrencyInit ==
    /\ pc = "currency"
    /\ amount = "1" /\ fromCurrency = "USD" /\ toCurrency = "INR"
    /\ converted = JsNull /\ rates = JsNull /\ loading = TRUE
    /\ fetchError = JsNull /\ lastUpdated = JsNull
    /\ requests = <<"USD">> /\ pending = {1}
    /\ InverseIdle /\ PrimeIdle /\ EvaluateIdle /\ ParseIdle /\ AlgebraIdle /\ QuadraticIdle /\ FactIdle /\ GridIdle /\ BasicIdle

CurrencyNext ==
    \/ \E c \in Currencies : selectFrom(c)
    \/ \E c \in Currencies : selectTo(c)
    \/ \E text \in TypedAmounts : setAmount(text)
    \/ handleSwap
    \/ \E id \in pending : \E outcome \in Outcomes : respond(id, outcome)

SpecCurrency == CurrencyInit /\ [][CurrencyNext]_vars

\* C30: once no call of fetchRates is in flight, the stored rates are those
\* fetched for the currency selected in From and the converted amount is
\* computed from them, or the rates are null and an error message is shown;
\* a response never replaces the stored rates by those of a currency that is
\* not the one selected; and loading is false only while no call is in
\* flight.
C30_LatestSelectionWins ==
    /\ [](pc = "currency" /\ pending = {} =>
            \/ /\ rates = RatesOf(fromCurrency)
               /\ converted = Conversion(amount, toCurrency, RatesOf(fromCurrency))
            \/ rates = JsNull /\ fetchError # JsNull)
    /\ [](pc = "currency" /\ ~loading => pending = {})
    /\ [][(pc = "currency" /\ rates' # rates /\ rates' # JsNull)
             => rates' = RatesOf(fromCurrency')]_vars

====
